---- MODULE Spec2Model ----
(***************************************************************************)
(* A model of DublinGAAScraper (src/src/gaa_scraper.py): the four public   *)
(* entry points get_sportlomo_fixtures, get_all_sports_fixtures,           *)
(* get_fixtures and get_date_range_fixtures, the helpers they call, and    *)
(* the upstream network, which answers every request nondeterministically. *)
(*                                                                         *)
(* The scraper is single-threaded.  Its position is pc; every action is    *)
(* the code that runs between two network interactions (or two calls).     *)
(* A datetime is a day number of the year 2025, a 'YYYY-MM-DD' string is   *)
(* the tuple <<y, m, d>>, and free text that the code edits character by   *)
(* character is a sequence of one-character strings.                       *)
(***************************************************************************)
EXTENDS Integers, Sequences, FiniteSets, TLC

VARIABLES pc, callers, ret, raised, entry, sl, asf, gf, dr, log

vars == <<pc, callers, ret, raised, entry, sl, asf, gf, dr, log>>

(***************************************************************************)
(* Bounds of the model.                                                    *)
(***************************************************************************)
\* dates offered to get_sportlomo_fixtures, get_all_sports_fixtures and
\* get_fixtures are FirstDay .. FirstDay + MaxDay
MaxDay == 1
\* longest explicit sports list passed to get_all_sports_fixtures
MaxSports == 2
\* largest number of network requests one offered call can need
MaxRequests == 4
\* dates offered to get_date_range_fixtures are RangeFirstDay .. RangeFirstDay + MaxRangeDay
MaxRangeDay == 13
\* batch sizes offered to get_date_range_fixtures are 1 .. MaxBatch
MaxBatch == 7

(***************************************************************************)
(* Calendar: datetime.strptime(s, '%Y-%m-%d') and d.strftime('%Y-%m-%d')   *)
(* within the year 2025.                                                   *)
(***************************************************************************)
\* the calendar year of every date of the model
Year == 2000 + 25

DaysInMonth(m) ==
    CASE m \in {4, 6, 9, 11} -> 30
      [] m = 2 -> 28
      [] OTHER -> 31

RECURSIVE DaysBefore(_)
DaysBefore(m) == IF m <= 1 THEN 0 ELSE DaysBefore(m - 1) + DaysInMonth(m - 1)

\* the value that stands for "strptime raised ValueError"
BadDay == 0 - 1

\* strptime: a well-formed string gives its day number, any other raises
Strptime(s) ==
    IF /\ Len(s) = 3
       /\ s[1] = Year
       /\ s[2] \in 1..12
       /\ s[3] \in 1..DaysInMonth(s[2])
    THEN DaysBefore(s[2]) + s[3]
    ELSE BadDay

MonthOf(n) == CHOOSE m \in 1..12 : DaysBefore(m) < n /\ n <= DaysBefore(m) + DaysInMonth(m)

\* strftime('%Y-%m-%d')
Strftime(n) == <<Year, MonthOf(n), n - DaysBefore(MonthOf(n))>>

\* a date string that strptime rejects (month 13)
MalformedDate == <<Year, 13, 1>>

\* None (or '') passed for a date argument
NoDate == <<>>

FirstDay == DaysBefore(7) + 3
RangeFirstDay == DaysBefore(6) + 29

Days == FirstDay .. (FirstDay + MaxDay)
RangeDays == RangeFirstDay .. (RangeFirstDay + MaxRangeDay)

DateStrings == {Strftime(n) : n \in Days}
RangeDateStrings == {Strftime(n) : n \in RangeDays}

Min(a, b) == IF a <= b THEN a ELSE b

\* the elements of a sequence
Range(q) == {q[i] : i \in 1..Len(q)}

\* the least element of a non-empty set of numbers
Least(S) == CHOOSE k \in S : \A j \in S : k <= j

(***************************************************************************)
(* Text.  A text is a sequence of one-character strings.                   *)
(***************************************************************************)
\* str.replace(old, ""): every non-overlapping occurrence, left to right
RECURSIVE Remove(_, _)
Remove(s, old) ==
    IF Len(s) < Len(old) \/ Len(old) = 0 THEN s
    ELSE IF SubSeq(s, 1, Len(old)) = old
         THEN Remove(SubSeq(s, Len(old) + 1, Len(s)), old)
         ELSE <<s[1]>> \o Remove(Tail(s), old)

\* str.strip(): leading and trailing blanks removed
RECURSIVE LStrip(_)
LStrip(s) == IF s # <<>> /\ s[1] = " " THEN LStrip(Tail(s)) ELSE s

RECURSIVE RStrip(_)
RStrip(s) == IF s # <<>> /\ s[Len(s)] = " " THEN RStrip(SubSeq(s, 1, Len(s) - 1)) ELSE s

Strip(s) == LStrip(RStrip(s))

\* the sentinel "N/A" as a text, and as a plain string
NAText == <<"N", "/", "A">>
NA == "N/A"

\* the date text kept as it is (a plausible bug: the replace chain dropped)
StripOrdinalsKept(t) == t

\* line 110: the header's date text with the ordinal suffixes replaced away
StripOrdinals(t) ==
    Remove(Remove(Remove(Remove(t, <<"s", "t">>), <<"n", "d">>), <<"r", "d">>), <<"t", "h">>)

(***************************************************************************)
(* The HTML fragment of an AJAX answer: the sequence of sibling elements   *)
(* of its table.  An element is a competition header (thead.divider), a    *)
(* match row (tbody) or anything else.                                     *)
(***************************************************************************)
\* a tag that may be missing: has = FALSE when the markup has no such tag
Tag(text) == [has |-> TRUE, text |-> text]
NoTag == [has |-> FALSE, text |-> ""]
NoTextTag == [has |-> FALSE, text |-> <<>>]

\* a cell whose text sits in an inner span: the cell, the span, the text
Cell(text) == [has |-> TRUE, span |-> TRUE, text |-> text]
CellNoSpan == [has |-> TRUE, span |-> FALSE, text |-> ""]
NoCell == [has |-> FALSE, span |-> FALSE, text |-> ""]

Header(comp, date) == [tag |-> "thead", class |-> "divider", comp_name |-> comp, date |-> date]
Row(time, home, away, venue, referee) ==
    [tag |-> "tbody", time |-> time, home |-> home, away |-> away,
     venue |-> venue, referee |-> referee]
PlainHead == [tag |-> "thead", class |-> ""]
Other == [tag |-> "div"]

\* tag.get_text(strip=True) if tag else "N/A"
TextOr(tag, default) == IF tag.has THEN tag.text ELSE default

\* the cell's own text when it has no span (a plausible bug: the sentinel
\* kept for a missing cell only)
CellTextOr(cell, default) == IF cell.has THEN cell.text ELSE default

\* cell.find('span').get_text(strip=True) if cell and cell.find('span') else "N/A"
SpanTextOr(cell, default) == IF cell.has /\ cell.span THEN cell.text ELSE default

\* lines 106-110: the competition name and the date of a header
HeaderCompName(h) == TextOr(h.comp_name, NA)

HeaderMatchDate(h) ==
    IF h.date.has THEN StripOrdinals(Strip(h.date.text)) ELSE NAText

\* lines 118-150: the record of one match row under a header
MatchOfRow(h, r) ==
    [date |-> HeaderMatchDate(h),
     time |-> TextOr(r.time, NA),
     competition |-> HeaderCompName(h),
     home_team |-> SpanTextOr(r.home, NA),
     away_team |-> SpanTextOr(r.away, NA),
     venue |-> SpanTextOr(r.venue, NA),
     referee |-> SpanTextOr(r.referee, NA)]

\* line 102: a thead of class divider
IsDivider(n) == n.tag = "thead" /\ n.class = "divider"

\* the rows up to the next header, other siblings stepped over (a
\* plausible bug: a sibling that is no row skipped, not ending the walk)
RECURSIVE WalkRowsToNextHeader(_, _, _)
WalkRowsToNextHeader(nodes, h, i) ==
    IF i > Len(nodes) \/ IsDivider(nodes[i]) THEN <<>>
    ELSE IF nodes[i].tag = "tbody"
         THEN <<MatchOfRow(h, nodes[i])>> \o WalkRowsToNextHeader(nodes, h, i + 1)
         ELSE WalkRowsToNextHeader(nodes, h, i + 1)

\* lines 113-152: the rows that follow header h, from sibling i on, up to
\* the first sibling that is not a tbody
RECURSIVE WalkRows(_, _, _)
WalkRows(nodes, h, i) ==
    IF i <= Len(nodes) /\ nodes[i].tag = "tbody"
    THEN <<MatchOfRow(h, nodes[i])>> \o WalkRows(nodes, h, i + 1)
    ELSE <<>>

\* lines 102-154: every header, in document order, with the rows after it
RECURSIVE ParseFrom(_, _)
ParseFrom(nodes, k) ==
    IF k > Len(nodes) THEN <<>>
    ELSE IF IsDivider(nodes[k])
         THEN WalkRows(nodes, nodes[k], k + 1) \o ParseFrom(nodes, k + 1)
         ELSE ParseFrom(nodes, k + 1)

(***************************************************************************)
(* The fragments the upstream may answer with.                             *)
(***************************************************************************)
Txt4thJuly == <<"4", "t", "h", " ", "J", "u", "l", "y">>
Txt4July == <<"4", " ", "J", "u", "l", "y">>
Txt5thJulyPadded == <<" ", "5", "t", "h", " ", "J", "u", "l", "y", " ">>

RowA == Row(Tag("10:00"), Cell("Na Fianna"), Cell("Ballymun"), Cell("Mobhi Road"), Cell("J Ryan"))
RowB == Row(Tag("11:30"), Cell("Cuala"), Cell("Kilmacud"), Cell("Dalkey"), Cell("P Byrne"))
RowBare == Row(NoTag, NoCell, CellNoSpan, NoCell, CellNoSpan)

\* the upstream's "no fixtures" answer; it carries markup of its own
NotFoundNodes == <<Header(Tag("No fixtures"), NoTextTag), RowBare>>

\* one competition header "U12 Division 1", "4th July", and two match rows
U12Nodes == <<Header(Tag("U12 Division 1"), Tag(Txt4thJuly)), RowA, RowB>>

\* a row before any header, a header with one row, a non-row sibling, a row
\* after it, a thead without the divider class, a header with no name and
\* one bare row
MixedNodes ==
    <<RowB,
      Header(Tag("Senior Cup"), Tag(Txt5thJulyPadded)), RowA,
      Other, RowB,
      PlainHead,
      Header(NoTag, NoTextTag), RowBare>>

\* a fragment is named in the state; "" is the empty string (also what
\* data.get('html', '') gives when the key is missing)
EmptyHtml == ""
Fragments == {EmptyHtml, "not_found", "u12", "mixed"}

\* "not_found" in html_content
HasNotFound(html) == html = "not_found"

\* the sibling elements BeautifulSoup finds in the fragment
Nodes(html) ==
    CASE html = "not_found" -> NotFoundNodes
      [] html = "u12" -> U12Nodes
      [] html = "mixed" -> MixedNodes
      [] OTHER -> <<>>

\* _parse_sportlomo_match_data
ParseSportlomoMatchData(html) == ParseFrom(Nodes(html), 1)

(***************************************************************************)
(* The upstream's answers.                                                 *)
(***************************************************************************)
\* session.post / raise_for_status / response.json of one AJAX request:
\*   conn_error  the post raised (timeout, connection error)
\*   http_error  raise_for_status raised (non-2xx)
\*   bad_json    response.json() raised
\*   ok          a JSON object; html is its 'html' value
AjaxError(kind) == [kind |-> kind, html |-> EmptyHtml]
AjaxOk(html) == [kind |-> "ok", html |-> html]

AjaxErrors == {AjaxError("conn_error"), AjaxError("http_error"), AjaxError("bad_json")}
AjaxResponses == AjaxErrors \cup {AjaxOk(h) : h \in Fragments}

\* _get_csrf_token's GET: the page holds a nonce, holds none, or the GET fails
CsrfResponses == {"token", "no_token", "error"}

\* _try_main_site's POST: 403, the post raised, another non-2xx, a JSON
\* body, a body that is not JSON
MainResponses == {"forbidden", "conn_error", "http_error", "json", "text"}

\* the exception a failed request raises inside the try block: session.get
\* and session.post raise ConnectionError (or Timeout, its sibling),
\* raise_for_status raises HTTPError, response.json() raises JSONDecodeError
ExceptionOf(kind) ==
    CASE kind = "conn_error" -> "ConnectionError"
      [] kind = "timeout" -> "Timeout"
      [] kind = "http_error" -> "HTTPError"
      [] kind = "bad_json" -> "JSONDecodeError"

\* the classes of requests.RequestException that the requests made raise
RequestExceptions == {"ConnectionError", "Timeout", "HTTPError"}
Exceptions == RequestExceptions \cup {"JSONDecodeError", "ValueError"}

\* "except Exception" of lines 223 and 333
IsException(e) == e \in Exceptions

\* a handler for connection failures only (a plausible bug: a status error
\* of raise_for_status left uncaught)
IsConnectionFailure(e) == e \in {"ConnectionError", "Timeout"}

\* "except requests.RequestException" of line 412
IsRequestException(e) == e \in RequestExceptions

(***************************************************************************)
(* Lines 48-53 and 69-85.                                                  *)
(***************************************************************************)
sports_mapping ==
    [s \in {"Male Football", "Hurling", "Ladies Football", "Camogie"} |->
        CASE s = "Male Football" -> <<"3,7167,7130", "_", "26">>
          [] s = "Hurling" -> <<"3,7167,7130", "_", "27">>
          [] s = "Ladies Football" -> <<"7046">>
          [] s = "Camogie" -> <<"7282">>]

\* list(self.sports_mapping.keys()): insertion order
SportsKeys == <<"Male Football", "Hurling", "Ladies Football", "Camogie">>

\* _parse_sport_value: (user_id, code_id)
ParseSportValue(v) ==
    IF \E i \in 1..Len(v) : v[i] = "_" THEN <<v[1], v[3]>> ELSE <<v[1], "">>

\* sport names a caller may pass: three known ones and one that is no key
InputSports == {"Male Football", "Hurling", "Camogie", "Football"}

\* sport names offered in a sports list or as the sport keyword
ListSports == {"Hurling", "Football"}

(***************************************************************************)
(* State.                                                                  *)
(*   pc       the label of the code the scraper runs next                  *)
(*   callers  the labels the active calls return to, innermost first       *)
(*   ret      the value the last return statement returned                 *)
(*   raised   the exception that escaped to the caller, "none" if none     *)
(*   entry    the public call that was made, with its arguments            *)
(*   sl, asf, gf, dr   the locals of get_sportlomo_fixtures,               *)
(*            get_all_sports_fixtures, get_fixtures (with _try_main_site)  *)
(*            and get_date_range_fixtures                                  *)
(*   log      what the scraper did that its caller or the upstream can     *)
(*            observe: calls, requests, answers, sleeps, printed errors    *)
(***************************************************************************)
NoResult == [returned |-> FALSE]
NoEntry == [fn |-> "none"]

\* an optional argument: given = FALSE is Python's None / an absent keyword
Given(v) == [given |-> TRUE, value |-> v]
NoSports == [given |-> FALSE, value |-> <<>>]
NoSportKw == [given |-> FALSE, value |-> ""]

sl0 ==
    [sport_name |-> "", from_date |-> NoDate, to_date |-> NoDate,
     user_id |-> "", code_id |-> "", current_date |-> 0, end_date |-> 0,
     all_matches |-> <<>>]
asf0 ==
    [from_date |-> NoDate, to_date |-> NoDate, sports_arg |-> NoSports,
     sports |-> <<>>, i |-> 1, all_fixtures |-> <<>>,
     results_by_sport |-> [s \in {} |-> NoResult]]
gf0 ==
    [from_date |-> NoDate, to_date |-> NoDate, sport_kw |-> NoSportKw,
     nonce |-> FALSE, result |-> NoResult]
dr0 ==
    [start_date |-> NoDate, end_date |-> NoDate, batch_size |-> 0,
     current_date |-> 0, end_date_obj |-> 0, batch_end |-> 0,
     all_fixtures |-> <<>>]

Init ==
    /\ pc = "idle"
    /\ callers = <<>>
    /\ ret = NoResult
    /\ raised = "none"
    /\ entry = NoEntry
    /\ sl = sl0
    /\ asf = asf0
    /\ gf = gf0
    /\ dr = dr0
    /\ log = <<>>

\* a return statement: back to the caller with value v
Return(v) ==
    /\ pc' = Head(callers)
    /\ callers' = Tail(callers)
    /\ ret' = v
    /\ raised' = raised

\* an exception no frame of the scraper catches: it reaches the caller
Raise(e) ==
    /\ pc' = "done"
    /\ callers' = <<>>
    /\ ret' = NoResult
    /\ raised' = e

\* a call of function label with the frame set by the caller
Call(label, back) ==
    /\ pc' = label
    /\ callers' = <<back>> \o callers
    /\ UNCHANGED <<ret, raised>>

Sleep(tenths) == [ev |-> "sleep", tenths |-> tenths]

(***************************************************************************)
(* get_sportlomo_fixtures, lines 156-235.                                  *)
(***************************************************************************)
\* lines 172-175
UnknownSportResult(sport_name) ==
    [success |-> FALSE, error |-> <<"Unknown sport", sport_name>>]

\* lines 228-235
SportlomoResult(f) ==
    [success |-> TRUE,
     fixtures |-> f.all_matches,
     method |-> "sportlomo_ajax",
     sport |-> f.sport_name,
     date_range |-> <<f.from_date, f.to_date>>,
     source |-> "sportlomo"]

\* lines 168-184: the defaults, the sport check, the two strptime calls
sl_entry ==
    /\ pc = "sl_entry"
    /\ LET to_date == IF sl.to_date = NoDate THEN sl.from_date ELSE sl.to_date
           call == [ev |-> "call", fn |-> "get_sportlomo_fixtures",
                    sport |-> sl.sport_name, from_date |-> sl.from_date,
                    to_date |-> to_date]
       IN  /\ log' = Append(log, call)
           /\ IF sl.sport_name \notin DOMAIN sports_mapping
              THEN /\ Return(UnknownSportResult(sl.sport_name))
                   /\ sl' = sl0
              ELSE IF Strptime(sl.from_date) = BadDay \/ Strptime(to_date) = BadDay
              THEN /\ Raise("ValueError")
                   /\ sl' = sl0
              ELSE /\ sl' = [sl EXCEPT
                               !.to_date = to_date,
                               !.user_id = ParseSportValue(sports_mapping[sl.sport_name])[1],
                               !.code_id = ParseSportValue(sports_mapping[sl.sport_name])[2],
                               !.current_date = Strptime(sl.from_date),
                               !.end_date = Strptime(to_date),
                               !.all_matches = <<>>]
                   /\ pc' = "sl_loop"
                   /\ UNCHANGED <<callers, ret, raised>>
    /\ UNCHANGED <<entry, asf, gf, dr>>

\* lines 186-205: the loop test, the payload and the post of one date; or
\* lines 228-235 when the loop is over
sl_loop ==
    /\ pc = "sl_loop"
    /\ IF sl.current_date <= sl.end_date
       THEN /\ log' = Append(log,
                        [ev |-> "post", url |-> "sportlomo_ajax",
                         sport |-> sl.sport_name,
                         fdate |-> Strftime(sl.current_date),
                         tdate |-> Strftime(sl.current_date),
                         user_id |-> sl.user_id, code_id |-> sl.code_id])
            /\ pc' = "sl_post"
            /\ UNCHANGED <<callers, ret, raised, sl>>
       ELSE /\ Return(SportlomoResult(sl))
            /\ sl' = sl0
            /\ log' = log
    /\ UNCHANGED <<entry, asf, gf, dr>>

\* the marker ignored (a plausible bug: only the emptiness test kept)
HtmlUsableIgnoringMarker(html) == html # EmptyHtml

\* line 211: html_content and "not_found" not in html_content
HtmlUsable(html) == html # EmptyHtml /\ ~HasNotFound(html)

\* every match tagged with the first date of the range (a plausible bug:
\* from_date in place of date_str in line 217)
RECURSIVE TagMatchesWithFromDate(_, _, _)
TagMatchesWithFromDate(ms, sport_name, date_str) ==
    IF ms = <<>> THEN <<>>
    ELSE <<[k \in DOMAIN Head(ms) \cup {"sport", "scraped_date"} |->
              CASE k = "sport" -> sport_name
                [] k = "scraped_date" -> sl.from_date
                [] OTHER -> Head(ms)[k]]>>
         \o TagMatchesWithFromDate(Tail(ms), sport_name, date_str)

\* lines 214-217: every match tagged with the sport and the date asked for
RECURSIVE TagMatches(_, _, _)
TagMatches(ms, sport_name, date_str) ==
    IF ms = <<>> THEN <<>>
    ELSE <<[k \in DOMAIN Head(ms) \cup {"sport", "scraped_date"} |->
              CASE k = "sport" -> sport_name
                [] k = "scraped_date" -> date_str
                [] OTHER -> Head(ms)[k]]>>
         \o TagMatches(Tail(ms), sport_name, date_str)

\* lines 206-218: what one answer adds to all_matches
MatchesOfResponse(r, sport_name, date_str) ==
    IF r.kind = "ok" /\ HtmlUsable(r.html)
    THEN TagMatches(ParseSportlomoMatchData(r.html), sport_name, date_str)
    ELSE <<>>

\* lines 220-224: the sleep on the try's normal path, the print in the handler
AfterResponse(r) ==
    IF r.kind = "ok" THEN <<Sleep(5)>> ELSE <<[ev |-> "print", what |-> "error"]>>

\* the answer as the log keeps it: whether the try block got a JSON object
\* (ok), and the fragment it held
AjaxAnswer(r) ==
    [ev |-> "answer", url |-> "sportlomo_ajax", ok |-> (r.kind = "ok"), html |-> r.html]

\* the date after an aborted range: an answer that is no JSON object ends
\* the loop (a plausible bug: the handler outside the loop)
NextDateAbortOnError(f, r) ==
    IF r.kind = "ok" THEN f.current_date + 1 ELSE f.end_date + 1

\* a date skipped after a failure (a plausible bug: the increment repeated
\* in the handler)
NextDateSkipAfterError(f, r) ==
    IF r.kind = "ok" THEN f.current_date + 1 ELSE f.current_date + 2

\* line 226, after the try statement: the next date, whatever the answer
NextDate(f, r) == f.current_date + 1

\* lines 206-226: the answer to the post of current_date
sl_response(r) ==
    /\ pc = "sl_post"
    /\ IF r.kind # "ok" /\ ~IsException(ExceptionOf(r.kind))
       THEN /\ log' = Append(log, AjaxAnswer(r))
            /\ Raise(ExceptionOf(r.kind))
            /\ sl' = sl0
       ELSE /\ log' = log \o <<AjaxAnswer(r)>> \o AfterResponse(r)
            /\ sl' = [sl EXCEPT
                        !.all_matches = @ \o MatchesOfResponse(r, sl.sport_name,
                                                               Strftime(sl.current_date)),
                        !.current_date = NextDate(sl, r)]
            /\ pc' = "sl_loop"
            /\ UNCHANGED <<callers, ret, raised>>
    /\ UNCHANGED <<entry, asf, gf, dr>>

(***************************************************************************)
(* get_all_sports_fixtures, lines 237-278.                                 *)
(***************************************************************************)
\* result.get(key): None (here FALSE / <<>>) when the key is missing
GetSuccess(result) == IF "success" \in DOMAIN result THEN result.success ELSE FALSE
GetFixtures(result) == IF "fixtures" \in DOMAIN result THEN result.fixtures ELSE <<>>

\* lines 270-278
AllSportsResult(f) ==
    [success |-> TRUE,
     total_fixtures |-> Len(f.all_fixtures),
     fixtures |-> f.all_fixtures,
     by_sport |-> f.results_by_sport,
     date_range |-> <<f.from_date, f.to_date>>,
     sports_scraped |-> f.sports,
     method |-> "comprehensive_sportlomo"]

\* lines 249-256: the defaults
as_entry ==
    /\ pc = "as_entry"
    /\ asf' = [asf EXCEPT
                 !.to_date = IF asf.to_date = NoDate THEN asf.from_date ELSE asf.to_date,
                 !.sports = IF asf.sports_arg.given THEN asf.sports_arg.value ELSE SportsKeys,
                 !.i = 1,
                 !.all_fixtures = <<>>,
                 !.results_by_sport = [s \in {} |-> NoResult]]
    /\ pc' = "as_loop"
    /\ UNCHANGED <<callers, ret, raised, entry, sl, gf, dr, log>>

\* lines 258-261: the next sport of the list is fetched; or lines 270-278
\* when the list is exhausted
as_loop ==
    /\ pc = "as_loop"
    /\ IF asf.i <= Len(asf.sports)
       THEN /\ sl' = [sl0 EXCEPT
                        !.sport_name = asf.sports[asf.i],
                        !.from_date = asf.from_date,
                        !.to_date = asf.to_date]
            /\ Call("sl_entry", "as_ret")
            /\ asf' = asf
       ELSE /\ Return(AllSportsResult(asf))
            /\ asf' = asf0
            /\ sl' = sl
    /\ UNCHANGED <<entry, gf, dr, log>>

\* only a successful result stored (a plausible bug: line 262 moved into
\* the if of line 264)
StoreBySportIfSuccess(by_sport, sport, result) ==
    IF GetSuccess(result)
    THEN [s \in DOMAIN by_sport \cup {sport} |-> IF s = sport THEN result ELSE by_sport[s]]
    ELSE by_sport

\* line 262: results_by_sport[sport] = result
StoreBySport(by_sport, sport, result) ==
    [s \in DOMAIN by_sport \cup {sport} |-> IF s = sport THEN result ELSE by_sport[s]]

\* the fixtures put in front (a plausible bug: newest first)
ExtendWithInFront(all_fixtures, result) ==
    IF GetSuccess(result) /\ GetFixtures(result) # <<>>
    THEN result.fixtures \o all_fixtures
    ELSE all_fixtures

\* lines 264-265: the fixtures of a result that has success and fixtures
ExtendWith(all_fixtures, result) ==
    IF GetSuccess(result) /\ GetFixtures(result) # <<>>
    THEN all_fixtures \o result.fixtures
    ELSE all_fixtures

\* lines 262-268: the sub-result is stored and its fixtures appended
as_ret ==
    /\ pc = "as_ret"
    /\ asf' = [asf EXCEPT
                 !.results_by_sport = StoreBySport(@, asf.sports[asf.i], ret),
                 !.all_fixtures = ExtendWith(@, ret),
                 !.i = @ + 1]
    /\ pc' = "as_loop"
    /\ UNCHANGED <<callers, ret, raised, entry, sl, gf, dr, log>>

(***************************************************************************)
(* get_fixtures with _try_main_site and _get_csrf_token, lines 305-413.    *)
(***************************************************************************)
\* lines 353-381: the default dates, the parameters, the GET of the token
\* page; today is datetime.now()
gf_entry(today) ==
    /\ pc = "gf_entry"
    /\ LET from_date == IF gf.from_date = NoDate THEN today ELSE gf.from_date
           to_date == IF gf.to_date = NoDate THEN from_date ELSE gf.to_date
       IN  /\ gf' = [gf EXCEPT !.from_date = from_date, !.to_date = to_date,
                               !.nonce = FALSE, !.result = NoResult]
           /\ log' = log \o <<[ev |-> "call", fn |-> "_try_main_site",
                               from_date |-> from_date, to_date |-> to_date],
                              [ev |-> "get", url |-> "csrf_page"]>>
    /\ pc' = "csrf_wait"
    /\ UNCHANGED <<callers, ret, raised, entry, sl, asf, dr>>

\* lines 313-335 and 382-391: the token page's answer, then the post to the
\* datafeed with the parameters (and the nonce, if one was found)
csrf_response(c) ==
    /\ pc = "csrf_wait"
    /\ IF c = "error" /\ ~IsException(ExceptionOf("conn_error"))
       THEN /\ log' = Append(log, [ev |-> "answer", url |-> "csrf_page", token |-> FALSE])
            /\ Raise(ExceptionOf("conn_error"))
            /\ gf' = gf0
       ELSE /\ gf' = [gf EXCEPT !.nonce = (c = "token")]
            /\ log' = log \o <<[ev |-> "answer", url |-> "csrf_page", token |-> (c = "token")],
                               [ev |-> "post", url |-> "datafeed",
                                fdate |-> gf.from_date, tdate |-> gf.to_date,
                                sport_kw |-> gf.sport_kw, nonce |-> (c = "token")]>>
            /\ pc' = "tm_wait"
            /\ UNCHANGED <<callers, ret, raised>>
    /\ UNCHANGED <<entry, sl, asf, dr>>

\* lines 393-413: the result of _try_main_site for the datafeed's answer
TryMainSiteResult(m) ==
    CASE m = "forbidden" -> [success |-> FALSE, error |-> "Access forbidden to main site"]
      [] m \in {"conn_error", "http_error"} ->
            [success |-> FALSE, error |-> "Main site request failed"]
      [] m = "json" -> [success |-> TRUE, data |-> "data", source |-> "main_site"]
      [] m = "text" -> [success |-> TRUE, raw_data |-> "text",
                        content_type |-> "text/html", source |-> "main_site"]

\* lines 393-413 and 359
tm_response(m) ==
    /\ pc = "tm_wait"
    /\ log' = Append(log, [ev |-> "answer", url |-> "datafeed",
                            ok |-> (m \in {"json", "text"})])
    /\ IF m \in {"conn_error", "http_error"} /\ ~IsRequestException(ExceptionOf(m))
       THEN /\ Raise(ExceptionOf(m))
            /\ gf' = gf0
       ELSE /\ gf' = [gf EXCEPT !.result = TryMainSiteResult(m)]
            /\ pc' = "gf_check"
            /\ UNCHANGED <<callers, ret, raised>>
    /\ UNCHANGED <<entry, sl, asf, dr>>

\* line 365: kwargs.get('sport', 'Male Football')
FallbackSport(kw) == IF kw.given THEN kw.value ELSE "Male Football"

\* line 362: the main site's result decides whether SportLoMo is tried
MainSiteFailed(result) == ~GetSuccess(result)

\* lines 362-368: the SportLoMo AJAX fetch if the main site failed, else
\* the main site's result is returned
gf_check ==
    /\ pc = "gf_check"
    /\ IF MainSiteFailed(gf.result)
       THEN /\ sl' = [sl0 EXCEPT
                        !.sport_name = FallbackSport(gf.sport_kw),
                        !.from_date = gf.from_date,
                        !.to_date = gf.to_date]
            /\ Call("sl_entry", "gf_ret")
            /\ gf' = gf
       ELSE /\ Return(gf.result)
            /\ gf' = gf0
            /\ sl' = sl
    /\ UNCHANGED <<entry, asf, dr, log>>

\* line 368, after the fallback: its result is returned
gf_ret ==
    /\ pc = "gf_ret"
    /\ Return(ret)
    /\ gf' = gf0
    /\ UNCHANGED <<entry, sl, asf, dr, log>>

(***************************************************************************)
(* get_date_range_fixtures, lines 749-789.                                 *)
(***************************************************************************)
\* lines 764-766
dr_entry ==
    /\ pc = "dr_entry"
    /\ IF Strptime(dr.start_date) = BadDay \/ Strptime(dr.end_date) = BadDay
       THEN /\ Raise("ValueError")
            /\ dr' = dr0
       ELSE /\ dr' = [dr EXCEPT
                        !.all_fixtures = <<>>,
                        !.current_date = Strptime(dr.start_date),
                        !.end_date_obj = Strptime(dr.end_date)]
            /\ pc' = "dr_loop"
            /\ UNCHANGED <<callers, ret, raised>>
    /\ UNCHANGED <<entry, sl, asf, gf, log>>

\* the batch's end one day late (a plausible bug: the "- 1" forgotten)
BatchEndOffByOne(current_date, batch_size, end_date_obj) ==
    Min(current_date + batch_size, end_date_obj)

\* line 769
BatchEnd(current_date, batch_size, end_date_obj) ==
    Min(current_date + (batch_size - 1), end_date_obj)

\* lines 768-776: the loop test, the batch's end and the call of
\* get_fixtures for the batch; or line 789 when the loop is over
dr_loop ==
    /\ pc = "dr_loop"
    /\ IF dr.current_date <= dr.end_date_obj
       THEN LET batch_end == BatchEnd(dr.current_date, dr.batch_size, dr.end_date_obj)
            IN  /\ dr' = [dr EXCEPT !.batch_end = batch_end]
                /\ gf' = [gf0 EXCEPT
                            !.from_date = Strftime(dr.current_date),
                            !.to_date = Strftime(batch_end)]
                /\ log' = Append(log, [ev |-> "call", fn |-> "get_fixtures",
                                       from_date |-> Strftime(dr.current_date),
                                       to_date |-> Strftime(batch_end)])
                /\ Call("gf_entry", "dr_ret")
       ELSE /\ Return(dr.all_fixtures)
            /\ dr' = dr0
            /\ UNCHANGED <<gf, log>>
    /\ UNCHANGED <<entry, sl, asf>>

\* lines 778-784: what a batch's result adds to all_fixtures
AddBatchResult(all_fixtures, result) ==
    IF GetSuccess(result)
    THEN IF "fixtures" \in DOMAIN result
         THEN all_fixtures \o result.fixtures
         ELSE Append(all_fixtures, result)
    ELSE all_fixtures

\* line 786
NextBatchStart(batch_end) == batch_end + 1

\* lines 778-787: the batch's result, the next start, the sleep
dr_ret ==
    /\ pc = "dr_ret"
    /\ dr' = [dr EXCEPT
                !.all_fixtures = AddBatchResult(@, ret),
                !.current_date = NextBatchStart(dr.batch_end)]
    /\ log' = log \o (IF GetSuccess(ret) THEN <<>> ELSE <<[ev |-> "print", what |-> "failed"]>>)
                  \o <<Sleep(10)>>
    /\ pc' = "dr_loop"
    /\ UNCHANGED <<callers, ret, raised, entry, sl, asf, gf>>

(***************************************************************************)
(* The public calls.  One call is made per behaviour; the scraper keeps    *)
(* nothing between calls that the modelled code reads.                     *)
(***************************************************************************)
\* the number of dates of [from_date, to_date]; 0 if it is empty or malformed
SpanDays(from_date, to_date) ==
    LET a == Strptime(from_date)
        b == Strptime(IF to_date = NoDate THEN from_date ELSE to_date)
    IN  IF a = BadDay \/ b = BadDay \/ b < a THEN 0 ELSE (b - a) + 1

\* the number of elements of list that are keys of sports_mapping
RECURSIVE KnownCount(_)
KnownCount(list) ==
    IF list = <<>> THEN 0
    ELSE (IF Head(list) \in DOMAIN sports_mapping THEN 1 ELSE 0) + KnownCount(Tail(list))

SportsLists == UNION {[1..n -> ListSports] : n \in 0..MaxSports}
SportsArgs == {NoSports} \cup {Given(l) : l \in SportsLists}
SportKws == {NoSportKw} \cup {Given(s) : s \in ListSports}

Call_get_sportlomo_fixtures(sport_name, from_date, to_date) ==
    /\ pc = "idle"
    /\ entry' = [fn |-> "get_sportlomo_fixtures", sport_name |-> sport_name,
                 from_date |-> from_date, to_date |-> to_date]
    /\ sl' = [sl0 EXCEPT !.sport_name = sport_name, !.from_date = from_date,
                         !.to_date = to_date]
    /\ pc' = "sl_entry"
    /\ callers' = <<"done">>
    /\ UNCHANGED <<ret, raised, asf, gf, dr, log>>

Call_get_all_sports_fixtures(from_date, to_date, sports) ==
    /\ pc = "idle"
    /\ KnownCount(IF sports.given THEN sports.value ELSE SportsKeys)
         * SpanDays(from_date, to_date) <= MaxRequests
    /\ entry' = [fn |-> "get_all_sports_fixtures", from_date |-> from_date,
                 to_date |-> to_date, sports |-> sports]
    /\ asf' = [asf0 EXCEPT !.from_date = from_date, !.to_date = to_date,
                           !.sports_arg = sports]
    /\ pc' = "as_entry"
    /\ callers' = <<"done">>
    /\ UNCHANGED <<ret, raised, sl, gf, dr, log>>

Call_get_fixtures(from_date, to_date, sport_kw) ==
    /\ pc = "idle"
    /\ 2 + SpanDays(from_date, to_date) <= MaxRequests
    /\ entry' = [fn |-> "get_fixtures", from_date |-> from_date,
                 to_date |-> to_date, sport_kw |-> sport_kw]
    /\ gf' = [gf0 EXCEPT !.from_date = from_date, !.to_date = to_date,
                         !.sport_kw = sport_kw]
    /\ pc' = "gf_entry"
    /\ callers' = <<"done">>
    /\ UNCHANGED <<ret, raised, sl, asf, dr, log>>

Call_get_date_range_fixtures(start_date, end_date, batch_size) ==
    /\ pc = "idle"
    /\ entry' = [fn |-> "get_date_range_fixtures", start_date |-> start_date,
                 end_date |-> end_date, batch_size |-> batch_size]
    /\ dr' = [dr0 EXCEPT !.start_date = start_date, !.end_date = end_date,
                         !.batch_size = batch_size]
    /\ pc' = "dr_entry"
    /\ callers' = <<"done">>
    /\ UNCHANGED <<ret, raised, sl, asf, gf, log>>

\* the requests a date-range call can need: a token GET and a datafeed POST
\* per batch, and one AJAX POST per date
RangeRequests(start_date, end_date, batch_size) ==
    LET n == SpanDays(start_date, end_date)
    IN  2 * ((n + batch_size - 1) \div batch_size) + n

\* datetime.now() of a call that passes no from_date
Todays == IF pc = "gf_entry" /\ gf.from_date = NoDate THEN DateStrings ELSE {NoDate}

(***************************************************************************)
(* Spec: one call of get_sportlomo_fixtures, get_all_sports_fixtures,      *)
(* get_fixtures or get_date_range_fixtures on a few dates, against an      *)
(* upstream that may give any answer to any request.                       *)
(***************************************************************************)
Next ==
    \/ \E sport_name \in InputSports,
          from_date \in DateStrings \cup {MalformedDate},
          to_date \in DateStrings \cup {NoDate, MalformedDate} :
            Call_get_sportlomo_fixtures(sport_name, from_date, to_date)
    \/ \E from_date \in DateStrings \cup {MalformedDate},
          to_date \in DateStrings \cup {NoDate},
          sports \in SportsArgs :
            Call_get_all_sports_fixtures(from_date, to_date, sports)
    \/ \E from_date \in DateStrings \cup {NoDate, MalformedDate},
          to_date \in DateStrings \cup {NoDate},
          sport_kw \in SportKws :
            Call_get_fixtures(from_date, to_date, sport_kw)
    \/ \E start_date \in DateStrings, end_date \in DateStrings,
          batch_size \in 1..(MaxDay + 1) :
            /\ RangeRequests(start_date, end_date, batch_size) <= MaxRequests
            /\ Call_get_date_range_fixtures(start_date, end_date, batch_size)
    \/ dr_entry
    \/ dr_loop
    \/ dr_ret
    \/ sl_entry
    \/ sl_loop
    \/ \E r \in AjaxResponses : sl_response(r)
    \/ as_entry
    \/ as_loop
    \/ as_ret
    \/ \E today \in Todays : gf_entry(today)
    \/ \E c \in CsrfResponses : csrf_response(c)
    \/ \E m \in MainResponses : tm_response(m)
    \/ gf_check
    \/ gf_ret

Spec == Init /\ [][Next]_vars

(***************************************************************************)
(* SpecRange: one call of get_date_range_fixtures or of                    *)
(* get_sportlomo_fixtures on a range of up to MaxRangeDay + 1 days (or on  *)
(* a start date after the end date), against an upstream whose answer to   *)
(* a request is fixed by the date asked for.                               *)
(***************************************************************************)
RangeCsrf == IF Strptime(gf.from_date) % 2 = 0 THEN "token" ELSE "error"

RangeMain ==
    CASE Strptime(gf.from_date) % 4 = 0 -> "json"
      [] Strptime(gf.from_date) % 4 = 1 -> "conn_error"
      [] Strptime(gf.from_date) % 4 = 2 -> "text"
      [] OTHER -> "forbidden"

RangeAjax ==
    CASE sl.current_date % 3 = 0 -> AjaxOk("u12")
      [] sl.current_date % 3 = 1 -> AjaxError("conn_error")
      [] OTHER -> AjaxOk("not_found")

NextRange ==
    \/ \E start_date \in RangeDateStrings \cup {MalformedDate},
          end_date \in RangeDateStrings,
          batch_size \in 1..MaxBatch :
            Call_get_date_range_fixtures(start_date, end_date, batch_size)
    \/ \E sport_name \in InputSports,
          from_date \in RangeDateStrings,
          to_date \in RangeDateStrings :
            Call_get_sportlomo_fixtures(sport_name, from_date, to_date)
    \/ dr_entry
    \/ dr_loop
    \/ dr_ret
    \/ gf_entry(NoDate)
    \/ csrf_response(RangeCsrf)
    \/ tm_response(RangeMain)
    \/ gf_check
    \/ gf_ret
    \/ sl_entry
    \/ sl_loop
    \/ sl_response(RangeAjax)

SpecRange == Init /\ [][NextRange]_vars

(***************************************************************************)
(* Python dicts whose key order matters: a dict is the sequence of its     *)
(* <<key, value>> items in insertion order.                                *)
(***************************************************************************)
Dict(items) == [is_dict |-> TRUE, items |-> items]

\* an element of a list that is no dict (isinstance(fixture, dict) fails)
NotADict == [is_dict |-> FALSE, items |-> <<>>]

Keys(d) == [k \in 1..Len(d.items) |-> d.items[k][1]]
HasKey(d, key) == \E k \in 1..Len(d.items) : d.items[k][1] = key
Get(d, key) == d.items[CHOOSE k \in 1..Len(d.items) : d.items[k][1] = key][2]

(***************************************************************************)
(* The date strings of the page scrape, lines 612-651.  A date string is   *)
(* its style and its numbers:                                              *)
(*   slash   the numbers date_str.split('/') gives, e.g. "4/7/2025";       *)
(*           padded tells whether one-digit numbers are written "04"       *)
(*   iso     "2025-07-04" as <<2025, 7, 4>>                                *)
(*   text    a string without '/' that is no ISO date, e.g. "4 July"       *)
(*   empty   the empty string                                              *)
(***************************************************************************)
SlashDate(parts, padded) == [style |-> "slash", parts |-> parts, padded |-> padded]
IsoDate(parts) == [style |-> "iso", parts |-> parts, padded |-> TRUE]
TextDate == [style |-> "text", parts |-> <<>>, padded |-> FALSE]
EmptyDate == [style |-> "empty", parts |-> <<>>, padded |-> FALSE]

\* datetime.strptime(date_str, '%d/%m/%Y') of a string of three numbers
StrptimeDMY(parts) == Strptime(<<parts[3], parts[2], parts[1]>>)

\* datetime.strptime(date_str, '%m/%d/%Y')
StrptimeMDY(parts) == Strptime(<<parts[3], parts[1], parts[2]>>)

\* lines 634-644: check_date, BadDay when the strptime calls raised
CheckDate(date_str) ==
    IF date_str.style = "slash"
    THEN IF StrptimeDMY(date_str.parts) # BadDay
         THEN StrptimeDMY(date_str.parts)
         ELSE StrptimeMDY(date_str.parts)
    ELSE Strptime(date_str.parts)

\* a date that cannot be parsed left out (a plausible bug: "return False"
\* in the handler of lines 650-651)
IsDateInRangeOrFalse(date_str, from_date, to_date) ==
    /\ date_str.style # "empty"
    /\ ~(date_str.style = "slash" /\ Len(date_str.parts) # 3)
    /\ CheckDate(date_str) # BadDay
    /\ Strptime(from_date) # BadDay /\ Strptime(to_date) # BadDay
    /\ Strptime(from_date) <= CheckDate(date_str)
    /\ CheckDate(date_str) <= Strptime(to_date)

\* lines 623-651: an empty string is out of range, and so is a string with
\* '/' that does not split in three parts (lines 640-641); any exception
\* of a strptime call gives True (lines 650-651)
IsDateInRange(date_str, from_date, to_date) ==
    IF date_str.style = "empty" THEN FALSE
    ELSE IF date_str.style = "slash" /\ Len(date_str.parts) # 3
    THEN FALSE
    ELSE IF CheckDate(date_str) = BadDay
            \/ Strptime(from_date) = BadDay \/ Strptime(to_date) = BadDay
    THEN TRUE
    ELSE Strptime(from_date) <= CheckDate(date_str)
         /\ CheckDate(date_str) <= Strptime(to_date)

(***************************************************************************)
(* The text of an element or of a line of the page, lines 487-610.  The    *)
(* regular expressions of the two parsers look for dates, a time, two team *)
(* names around a "V", a venue keyword and a competition keyword; a text   *)
(* is what it holds of these, written as                                   *)
(*     <dates> <time> Na Fianna <versus> Ballymun; <comp> <venue>          *)
(* with team names in letters without "v" or "V".                          *)
(*   dates    the date strings of the text, in the order written           *)
(*   time     whether an "HH:MM" is written                                *)
(*   versus   "V", "v" or "none" (the names follow one another)            *)
(*   venue    whether the text ends with the word "Park"                   *)
(*   comp     "AFL", "HL" or "none"                                        *)
(***************************************************************************)
Line(dates, time, versus, venue, comp) ==
    [dates |-> dates, time |-> time, versus |-> versus, venue |-> venue, comp |-> comp]

\* re.search: the leftmost of the places where the pattern matches, or
\* absent if there is none
FirstAt(q, places, absent) == IF places = {} THEN absent ELSE q[Least(places)]

\* a number written with two digits
TwoDigits(n, padded) == n >= 10 \/ padded

\* r'(\d{2}/\d{2}/\d{4})'
MatchesDDMMYYYY(d) ==
    /\ d.style = "slash"
    /\ Len(d.parts) = 3
    /\ TwoDigits(d.parts[1], d.padded)
    /\ TwoDigits(d.parts[2], d.padded)

\* r'(\d{4}-\d{2}-\d{2})'
MatchesISO(d) == d.style = "iso"

\* r'(\d{1,2}/\d{1,2}/\d{4})'
MatchesDMYYYY(d) == d.style = "slash" /\ Len(d.parts) = 3

\* lines 501-512: the patterns in their order, the first that matches wins
ElementDate(text) ==
    LET first == {i \in 1..Len(text.dates) : MatchesDDMMYYYY(text.dates[i])}
        second == {i \in 1..Len(text.dates) : MatchesISO(text.dates[i])}
        third == {i \in 1..Len(text.dates) : MatchesDMYYYY(text.dates[i])}
    IN  IF first # {} THEN FirstAt(text.dates, first, EmptyDate)
        ELSE IF second # {} THEN FirstAt(text.dates, second, EmptyDate)
        ELSE FirstAt(text.dates, third, EmptyDate)

\* the items a parser adds for a key it found
Item(found, key, value) == IF found THEN <<<<key, value>>>> ELSE <<>>

\* lines 531-535: 'AFL' or 'Football', else 'Hurling' or 'HL'
CompetitionOf(text) == IF text.comp = "AFL" THEN "Football" ELSE "Hurling"

\* lines 498-537: the fixture dict of an element's text
ElementFixture(text) ==
    Dict(Item(ElementDate(text) # EmptyDate, "date", ElementDate(text))
         \o Item(text.time, "time", "14:30")
         \o Item(text.versus = "V", "team1", "Na Fianna")
         \o Item(text.versus = "V", "team2", "Ballymun")
         \o Item(text.venue, "venue", "Park")
         \o Item(text.comp # "none", "competition", CompetitionOf(text)))

\* any key at all (a plausible bug: "if fixture" in place of the any(...))
UsefulIfAnyKey(fixture) == fixture.items # <<>>

\* line 542: any(key in fixture for key in ['date', 'team1', 'team2'])
Useful(fixture) ==
    HasKey(fixture, "date") \/ HasKey(fixture, "team1") \/ HasKey(fixture, "team2")

\* lines 487-549: the fixture, or None
ParseSportlomoFixture(text) ==
    IF Useful(ElementFixture(text)) THEN ElementFixture(text) ELSE NotADict

\* lines 583-610: the fixture of a line of the page's text; source_line
\* makes it non-empty
ParseFixtureLine(line) ==
    Dict(Item(\E i \in 1..Len(line.dates) : MatchesDMYYYY(line.dates[i]),
              "date",
              FirstAt(line.dates,
                      {i \in 1..Len(line.dates) : MatchesDMYYYY(line.dates[i])},
                      EmptyDate))
         \o Item(line.time, "time", "14:30")
         \o Item(line.versus # "none", "team1", "Na Fianna")
         \o Item(line.versus # "none", "team2", "Ballymun")
         \o <<<<"source_line", line>>>>)

\* fixture.get('date', '')
GetDate(fixture) == IF HasKey(fixture, "date") THEN Get(fixture, "date") ELSE EmptyDate

\* lines 475 and 578: fixture and self._is_date_in_range(...)
Kept(fixture, from_date, to_date) ==
    /\ fixture.is_dict
    /\ fixture.items # <<>>
    /\ IsDateInRange(GetDate(fixture), from_date, to_date)

(***************************************************************************)
(* _extract_sportlomo_fixtures and _extract_general_match_info, lines      *)
(* 443-581.  A page is the sequence of its elements in document order;     *)
(* an element has a tag, one class name (or ""), a place inside or outside *)
(* a tbody, and its text, which is one line of the page's text.            *)
(***************************************************************************)
Element(tag, class, in_tbody, text) ==
    [tag |-> tag, class |-> class, in_tbody |-> in_tbody, text |-> text]

\* lines 458-466
fixture_selectors ==
    <<"div.fixture-item", "tr.fixture-row", "div[class*=fixture]",
      "div[class*=match]", "tbody tr", ".fixture", ".match-row">>

\* the class names of the model that contain "fixture" / "match"
ClassesWithFixture == {"fixture-item", "fixture-row", "fixture"}
ClassesWithMatch == {"match-row", "match-card"}

\* whether soup.select(selector) finds the element
Selects(selector, el) ==
    CASE selector = "div.fixture-item" -> el.tag = "div" /\ el.class = "fixture-item"
      [] selector = "tr.fixture-row" -> el.tag = "tr" /\ el.class = "fixture-row"
      [] selector = "div[class*=fixture]" -> el.tag = "div" /\ el.class \in ClassesWithFixture
      [] selector = "div[class*=match]" -> el.tag = "div" /\ el.class \in ClassesWithMatch
      [] selector = "tbody tr" -> el.tag = "tr" /\ el.in_tbody
      [] selector = ".fixture" -> el.class = "fixture"
      [] selector = ".match-row" -> el.class = "match-row"

\* soup.select(selector): the elements found, in document order
Select(soup, selector) == SelectSeq(soup, LAMBDA el : Selects(selector, el))

\* lines 473-476: the fixtures of the elements, parsed and filtered
RECURSIVE FixturesOfElements(_, _, _)
FixturesOfElements(elements, from_date, to_date) ==
    IF elements = <<>> THEN <<>>
    ELSE (IF Kept(ParseSportlomoFixture(Head(elements).text), from_date, to_date)
          THEN <<ParseSportlomoFixture(Head(elements).text)>>
          ELSE <<>>)
         \o FixturesOfElements(Tail(elements), from_date, to_date)

\* lines 570-579: the fixtures of the lines of soup.get_text(); a line
\* counts when it has a D/M/YYYY date and a "V" or "v"
RECURSIVE ExtractGeneralMatchInfo(_, _, _)
ExtractGeneralMatchInfo(soup, from_date, to_date) ==
    IF soup = <<>> THEN <<>>
    ELSE LET line == Head(soup).text
         IN  (IF /\ \E i \in 1..Len(line.dates) : MatchesDMYYYY(line.dates[i])
                 /\ line.versus # "none"
                 /\ Kept(ParseFixtureLine(line), from_date, to_date)
              THEN <<ParseFixtureLine(line)>>
              ELSE <<>>)
             \o ExtractGeneralMatchInfo(Tail(soup), from_date, to_date)

\* the loop left as soon as a selector found elements (a plausible bug:
\* the break of line 479 moved out of "if fixtures")
LeaveLoopOnElements(elements, fixtures) == elements # <<>>

\* lines 469 and 478-479: the break, taken inside "if elements" when
\* fixtures is not empty
LeaveLoop(elements, fixtures) == elements # <<>> /\ fixtures # <<>>

\* lines 468-479: the loop from selector k on; tried lists the selectors
\* that soup.select was called with
RECURSIVE SelectorLoop(_, _, _, _, _, _)
SelectorLoop(soup, from_date, to_date, k, fixtures, tried) ==
    IF k > Len(fixture_selectors) THEN [fixtures |-> fixtures, tried |-> tried]
    ELSE LET elements == Select(soup, fixture_selectors[k])
             found == fixtures \o FixturesOfElements(elements, from_date, to_date)
         IN  IF LeaveLoop(elements, found)
             THEN [fixtures |-> found, tried |-> Append(tried, fixture_selectors[k])]
             ELSE SelectorLoop(soup, from_date, to_date, k + 1, found,
                               Append(tried, fixture_selectors[k]))

\* the free-text scan left out (a plausible bug: lines 481-483 dropped)
ExtractWithoutLineScan(soup, from_date, to_date) ==
    [fixtures |-> SelectorLoop(soup, from_date, to_date, 1, <<>>, <<>>).fixtures,
     tried |-> SelectorLoop(soup, from_date, to_date, 1, <<>>, <<>>).tried,
     general |-> SelectorLoop(soup, from_date, to_date, 1, <<>>, <<>>).fixtures = <<>>]

\* the line scan run in any case (a plausible bug: the "if not fixtures"
\* of line 482 dropped and the scan's records appended)
ExtractWithLineScanAppended(soup, from_date, to_date) ==
    [fixtures |-> SelectorLoop(soup, from_date, to_date, 1, <<>>, <<>>).fixtures
                  \o ExtractGeneralMatchInfo(soup, from_date, to_date),
     tried |-> SelectorLoop(soup, from_date, to_date, 1, <<>>, <<>>).tried,
     general |-> SelectorLoop(soup, from_date, to_date, 1, <<>>, <<>>).fixtures = <<>>]

\* lines 455-485: the fixtures returned, with the selectors tried and
\* whether the free-text scan ran
ExtractSportlomoFixtures(soup, from_date, to_date) ==
    LET loop == SelectorLoop(soup, from_date, to_date, 1, <<>>, <<>>)
    IN  [fixtures |-> IF loop.fixtures = <<>>
                      THEN ExtractGeneralMatchInfo(soup, from_date, to_date)
                      ELSE loop.fixtures,
         tried |-> loop.tried,
         general |-> loop.fixtures = <<>>]

(***************************************************************************)
(* to_dataframe, lines 791-820.  A DataFrame is its column labels in order *)
(* and its rows, each a function from the labels to the cells.             *)
(***************************************************************************)
\* the cell pandas fills in for a key a dict does not have
NaN == "NaN"

\* pd.DataFrame() and pd.DataFrame([])
EmptyFrame == [columns |-> <<>>, rows |-> <<>>]

\* the labels with the keys not yet among them appended
RECURSIVE AppendNew(_, _)
AppendNew(columns, keys) ==
    IF keys = <<>> THEN columns
    ELSE AppendNew(IF Head(keys) \in Range(columns) THEN columns
                   ELSE Append(columns, Head(keys)),
                   Tail(keys))

\* the keys of a list of dicts in the order first met
RECURSIVE ColumnsOf(_, _)
ColumnsOf(columns, dicts) ==
    IF dicts = <<>> THEN columns
    ELSE ColumnsOf(AppendNew(columns, Keys(Head(dicts))), Tail(dicts))

\* line 808: pd.DataFrame(list of dicts)
DataFrame(dicts) ==
    [columns |-> ColumnsOf(<<>>, dicts),
     rows |-> [i \in 1..Len(dicts) |->
                 [col \in Range(ColumnsOf(<<>>, dicts)) |->
                     IF HasKey(dicts[i], col) THEN Get(dicts[i], col) ELSE NaN]]]

\* line 811
preferred_order ==
    <<"sport", "date", "time", "competition", "home_team", "away_team",
      "venue", "referee">>

\* the preferred columns in the frame's own order (a plausible bug: the
\* comprehension of line 812 written over df.columns, read backwards)
ExistingColsOfFrame(columns) ==
    [k \in 1..Len(SelectSeq(columns, LAMBDA col : col \in Range(preferred_order))) |->
        SelectSeq(columns, LAMBDA col : col \in Range(preferred_order))
          [Len(SelectSeq(columns, LAMBDA col : col \in Range(preferred_order))) + 1 - k]]

\* line 812: [col for col in preferred_order if col in df.columns]
ExistingCols(columns) == SelectSeq(preferred_order, LAMBDA col : col \in Range(columns))

\* the other columns left out (a plausible bug: df[existing_cols])
OtherColsDropped(columns) == <<>>

\* line 813: [col for col in df.columns if col not in preferred_order]
OtherCols(columns) == SelectSeq(columns, LAMBDA col : col \notin Range(preferred_order))

\* df[labels]
Reindex(df, labels) ==
    [columns |-> labels,
     rows |-> [i \in 1..Len(df.rows) |-> [col \in Range(labels) |-> df.rows[i][col]]]]

\* lines 801-820
to_dataframe(fixtures_data) ==
    IF fixtures_data = <<>> THEN EmptyFrame
    ELSE LET df == DataFrame(SelectSeq(fixtures_data, LAMBDA fixture : fixture.is_dict))
         IN  IF ExistingCols(df.columns) # <<>>
             THEN Reindex(df, ExistingCols(df.columns) \o OtherCols(df.columns))
             ELSE df

(***************************************************************************)
(* SpecHelpers: one call of to_dataframe (and a second one on the rows of  *)
(* the frame it returned), of _is_date_in_range, of                        *)
(* _extract_sportlomo_fixtures, of _parse_sportlomo_match_data or of       *)
(* _parse_sportlomo_fixture, on the inputs below.                          *)
(***************************************************************************)
\* longest dict of arbitrary keys, longest list passed to to_dataframe,
\* longest page, longest fragment
MaxKeys == 2
MaxRecords == 2
MaxElements == 2
MaxNodes == 4

\* date strings met in a page
JulyFourth == SlashDate(<<4, 7, Year>>, FALSE)
JulyFourthPadded == SlashDate(<<4, 7, Year>>, TRUE)
JuneFirst == SlashDate(<<1, 6, Year>>, FALSE)
NoSuchDay == SlashDate(<<45, 13, Year>>, FALSE)
IsoJulyFourth == IsoDate(<<Year, 7, 4>>)

\* the date strings offered to _is_date_in_range
DateStrs ==
    {SlashDate(<<d, m, Year>>, FALSE) : d \in {3, 4, 5, 7, 45}, m \in {4, 7, 13}}
    \cup {SlashDate(<<7, Year>>, FALSE), IsoJulyFourth, IsoDate(<<Year, 7, 5>>),
          IsoDate(MalformedDate), TextDate, EmptyDate}

\* the texts of the elements of a page
Lines ==
    {Line(<<JulyFourth>>, TRUE, "V", TRUE, "AFL"),
     Line(<<JulyFourth>>, FALSE, "v", FALSE, "none"),
     Line(<<JuneFirst>>, TRUE, "V", FALSE, "HL"),
     Line(<<JuneFirst, JulyFourthPadded>>, FALSE, "v", FALSE, "none"),
     Line(<<NoSuchDay>>, FALSE, "v", FALSE, "none"),
     Line(<<>>, FALSE, "V", FALSE, "none"),
     Line(<<>>, TRUE, "none", TRUE, "AFL"),
     Line(<<IsoJulyFourth>>, FALSE, "none", FALSE, "none")}

Elements ==
    {Element("div", "fixture-item", FALSE, t) : t \in Lines}
    \cup {Element("tr", "", TRUE, t) : t \in Lines}
    \cup {Element("div", "match-card", FALSE, t) : t \in Lines}
    \cup {Element("p", "", FALSE, t) : t \in Lines}

Pages == UNION {[1..n -> Elements] : n \in 0..MaxElements}

\* the date range of the page scrape
ScrapeFrom == Strftime(FirstDay)
ScrapeTo == Strftime(FirstDay + 1)

\* the keys of the primary adapter's records in insertion order, lines
\* 142-150 and 215-216
PrimaryKeys ==
    <<"date", "time", "competition", "home_team", "away_team", "venue",
      "referee", "sport", "scraped_date">>

DictOfRecord(rec, keys) == Dict([k \in 1..Len(keys) |-> <<keys[k], rec[keys[k]]>>])

\* a record of each adapter, and an element that is no dict
PrimarySample ==
    DictOfRecord(TagMatches(ParseSportlomoMatchData("u12"), "Hurling",
                            Strftime(FirstDay))[1], PrimaryKeys)
ElementSample == ParseSportlomoFixture(Line(<<JulyFourth>>, TRUE, "V", TRUE, "AFL"))
LineSample == ParseFixtureLine(Line(<<JulyFourth>>, FALSE, "v", FALSE, "none"))

\* dicts of up to MaxKeys arbitrary keys, in every order
FrameKeys == {"date", "sport", "extra"}
KeyLists ==
    {ks \in UNION {[1..n -> FrameKeys] : n \in 0..MaxKeys} :
        \A i \in 1..Len(ks) : \A j \in 1..Len(ks) : ks[i] = ks[j] => i = j}
ArbitraryDicts == {Dict([k \in 1..Len(ks) |-> <<ks[k], "x">>]) : ks \in KeyLists}

FixtureLists ==
    UNION {[1..n -> ArbitraryDicts \cup {PrimarySample, ElementSample,
                                         LineSample, NotADict}] :
             n \in 0..MaxRecords}

\* a header date text whose month name holds the letters of a suffix
Txt1stAugust == <<"1", "s", "t", " ", "A", "u", "g", "u", "s", "t">>

\* the sibling elements of the fragments passed to
\* _parse_sportlomo_match_data: three headers, two rows, two others
FragmentNodes ==
    {Header(Tag("Senior Cup"), Tag(Txt4thJuly)),
     Header(NoTag, Tag(Txt1stAugust)),
     Header(Tag("U12 Division 1"), NoTextTag),
     RowA, RowBare, Other, PlainHead}

FragmentsOfNodes == UNION {[1..n -> FragmentNodes] : n \in 0..MaxNodes}

Call_to_dataframe(fixtures_data) ==
    /\ pc = "idle"
    /\ entry' = [fn |-> "to_dataframe", fixtures_data |-> fixtures_data]
    /\ pc' = "df_entry"
    /\ UNCHANGED <<callers, ret, raised, sl, asf, gf, dr, log>>

\* lines 801-820: the frame of the list passed
df_entry ==
    /\ pc = "df_entry"
    /\ ret' = to_dataframe(entry.fixtures_data)
    /\ log' = <<to_dataframe(entry.fixtures_data)>>
    /\ pc' = "df_again"
    /\ UNCHANGED <<callers, raised, entry, sl, asf, gf, dr>>

\* the rows of a frame as dicts, keys in column order
ToRecords(df) ==
    [i \in 1..Len(df.rows) |->
        Dict([k \in 1..Len(df.columns) |-> <<df.columns[k], df.rows[i][df.columns[k]]>>])]

\* lines 801-820 once more, on the rows of the frame returned
df_again ==
    /\ pc = "df_again"
    /\ ret' = to_dataframe(ToRecords(ret))
    /\ log' = Append(log, to_dataframe(ToRecords(ret)))
    /\ pc' = "done"
    /\ UNCHANGED <<callers, raised, entry, sl, asf, gf, dr>>

Call_is_date_in_range(date_str, from_date, to_date) ==
    /\ pc = "idle"
    /\ entry' = [fn |-> "_is_date_in_range", date_str |-> date_str,
                 from_date |-> from_date, to_date |-> to_date]
    /\ pc' = "in_range_entry"
    /\ UNCHANGED <<callers, ret, raised, sl, asf, gf, dr, log>>

\* lines 623-651
in_range_entry ==
    /\ pc = "in_range_entry"
    /\ ret' = IsDateInRange(entry.date_str, entry.from_date, entry.to_date)
    /\ pc' = "done"
    /\ UNCHANGED <<callers, raised, entry, sl, asf, gf, dr, log>>

Call_extract_sportlomo_fixtures(soup, from_date, to_date) ==
    /\ pc = "idle"
    /\ entry' = [fn |-> "_extract_sportlomo_fixtures", soup |-> soup,
                 from_date |-> from_date, to_date |-> to_date]
    /\ pc' = "extract_entry"
    /\ UNCHANGED <<callers, ret, raised, sl, asf, gf, dr, log>>

\* lines 455-485
extract_entry ==
    /\ pc = "extract_entry"
    /\ ret' = ExtractSportlomoFixtures(entry.soup, entry.from_date, entry.to_date)
    /\ pc' = "done"
    /\ UNCHANGED <<callers, raised, entry, sl, asf, gf, dr, log>>

\* html_content is passed as the sibling elements BeautifulSoup finds in it
Call_parse_sportlomo_match_data(nodes) ==
    /\ pc = "idle"
    /\ entry' = [fn |-> "_parse_sportlomo_match_data", nodes |-> nodes]
    /\ pc' = "parse_entry"
    /\ UNCHANGED <<callers, ret, raised, sl, asf, gf, dr, log>>

\* lines 98-154
parse_entry ==
    /\ pc = "parse_entry"
    /\ ret' = ParseFrom(entry.nodes, 1)
    /\ pc' = "done"
    /\ UNCHANGED <<callers, raised, entry, sl, asf, gf, dr, log>>

\* element.get_text() is passed as the text of the element
Call_parse_sportlomo_fixture(text) ==
    /\ pc = "idle"
    /\ entry' = [fn |-> "_parse_sportlomo_fixture", text |-> text]
    /\ pc' = "fixture_entry"
    /\ UNCHANGED <<callers, ret, raised, sl, asf, gf, dr, log>>

\* lines 497-549
fixture_entry ==
    /\ pc = "fixture_entry"
    /\ ret' = ParseSportlomoFixture(entry.text)
    /\ pc' = "done"
    /\ UNCHANGED <<callers, raised, entry, sl, asf, gf, dr, log>>

NextHelpers ==
    \/ /\ pc = "idle"
       /\ \E fixtures_data \in FixtureLists : Call_to_dataframe(fixtures_data)
    \/ df_entry
    \/ df_again
    \/ /\ pc = "idle"
       /\ \E date_str \in DateStrs, from_date \in DateStrings, to_date \in DateStrings :
             Call_is_date_in_range(date_str, from_date, to_date)
    \/ in_range_entry
    \/ /\ pc = "idle"
       /\ \E soup \in Pages : Call_extract_sportlomo_fixtures(soup, ScrapeFrom, ScrapeTo)
    \/ extract_entry
    \/ /\ pc = "idle"
       /\ \E nodes \in FragmentsOfNodes : Call_parse_sportlomo_match_data(nodes)
    \/ parse_entry
    \/ /\ pc = "idle"
       /\ \E text \in Lines : Call_parse_sportlomo_fixture(text)
    \/ fixture_entry

SpecHelpers == Init /\ [][NextHelpers]_vars

(***************************************************************************)
(* SpecBatch: one call of get_date_range_fixtures with a batch size that   *)
(* may be zero or negative, against the upstream of SpecRange.  The code   *)
(* puts no bound on the number of batches; the exploration stops after     *)
(* MaxCalls of them.                                                       *)
(***************************************************************************)
\* the most calls of get_fixtures explored in one run
MaxCalls == 4

\* the batch sizes offered
BatchSizes == (0 - 1)..2

\* the calls of get_fixtures made so far
CallsMade ==
    Cardinality({i \in 1..Len(log) : log[i].ev = "call" /\ log[i].fn = "get_fixtures"})

NextBatch ==
    \/ /\ pc = "idle"
       /\ \E start_date \in DateStrings, end_date \in DateStrings,
             batch_size \in BatchSizes :
               Call_get_date_range_fixtures(start_date, end_date, batch_size)
    \/ dr_entry
    \/ (CallsMade < MaxCalls /\ dr_loop)
    \/ dr_ret
    \/ gf_entry(NoDate)
    \/ csrf_response(RangeCsrf)
    \/ tm_response(RangeMain)
    \/ gf_check
    \/ gf_ret
    \/ sl_entry
    \/ sl_loop
    \/ sl_response(RangeAjax)

SpecBatch == Init /\ [][NextBatch]_vars

(***************************************************************************)
(* What the claims speak about.                                            *)
(***************************************************************************)
Done == pc = "done"

\* the run returned: no exception escaped
Returned == Done /\ raised = "none"

\* the batches get_date_range_fixtures asked get_fixtures for, as day numbers
BatchCalls == SelectSeq(log, LAMBDA e : e.ev = "call" /\ e.fn = "get_fixtures")
Batches ==
    [i \in 1..Len(BatchCalls) |->
        <<Strptime(BatchCalls[i].from_date), Strptime(BatchCalls[i].to_date)>>]

\* the calls of get_sportlomo_fixtures, the AJAX posts and their answers
SportlomoCalls ==
    SelectSeq(log, LAMBDA e : e.ev = "call" /\ e.fn = "get_sportlomo_fixtures")
AjaxPosts == SelectSeq(log, LAMBDA e : e.ev = "post" /\ e.url = "sportlomo_ajax")
AjaxAnswers == SelectSeq(log, LAMBDA e : e.ev = "answer" /\ e.url = "sportlomo_ajax")

\* every request the scraper sent to the network
NetworkRequests == SelectSeq(log, LAMBDA e : e.ev \in {"get", "post"})

\* the calls of the HTML page scrape, _try_sportlomo (lines 415-441)
SecondaryCalls == SelectSeq(log, LAMBDA e : e.ev = "call" /\ e.fn = "_try_sportlomo")

\* a direct call of get_sportlomo_fixtures for a known sport and a
\* well-formed range from <= to
DirectFetch ==
    /\ entry.fn = "get_sportlomo_fixtures"
    /\ entry.sport_name \in DOMAIN sports_mapping
    /\ SpanDays(entry.from_date, entry.to_date) >= 1

EntryFirstDay == Strptime(entry.from_date)
EntryLastDay ==
    Strptime(IF entry.to_date = NoDate THEN entry.from_date ELSE entry.to_date)

\* the fixtures of a list that the request for date string d produced
FixturesOfDate(fixtures, d) == SelectSeq(fixtures, LAMBDA f : f.scraped_date = d)

(***************************************************************************)
(* C1.  For every start date D0 <= end date D1 and batch size N >= 1 the   *)
(* batches get_date_range_fixtures requests are ordered, disjoint and      *)
(* contiguous: the first starts at D0, each next one starts the day after  *)
(* the previous one ends, every batch that does not end at D1 spans        *)
(* exactly N days, the last ends at D1 and spans 1..N days.  D0 = D1 gives *)
(* one one-day batch; 14 days with N = 7 give [day0..day6], [day7..day13]. *)
(***************************************************************************)
C1_BatchesPartitionRange ==
    (/\ entry.fn = "get_date_range_fixtures"
     /\ SpanDays(entry.start_date, entry.end_date) >= 1)
    =>
    LET D0 == Strptime(entry.start_date)
        D1 == Strptime(entry.end_date)
        N == entry.batch_size
        B == Batches
    IN  /\ \A i \in 1..Len(B) :
              /\ B[i][1] <= B[i][2]
              /\ (B[i][2] - B[i][1]) + 1 <= N
              /\ B[i][2] <= D1
              /\ B[i][2] < D1 => (B[i][2] - B[i][1]) + 1 = N
              /\ i = 1 => B[i][1] = D0
              /\ i > 1 => B[i][1] = B[i - 1][2] + 1
        /\ Done => /\ raised = "none"
                   /\ Len(B) >= 1
                   /\ B[Len(B)][2] = D1
        /\ (Done /\ D0 = D1) => B = <<(<<D0, D0>>)>>
        /\ (Done /\ D1 = D0 + 13 /\ N = 7) => B = <<(<<D0, D0 + 6>>), (<<D0 + 7, D0 + 13>>)>>

\* a 14-day range with batch size 7 has been fetched in two batches
C1_Witness ==
    /\ Done
    /\ entry.fn = "get_date_range_fixtures"
    /\ SpanDays(entry.start_date, entry.end_date) = 14
    /\ entry.batch_size = 7
    /\ Len(Batches) = 2

(***************************************************************************)
(* C2.  With a start date after the end date, get_date_range_fixtures and  *)
(* get_sportlomo_fixtures fail with an InvalidRange error instead of       *)
(* returning a normal result.                                              *)
(***************************************************************************)
ReversedRange(from_date, to_date) ==
    /\ Strptime(from_date) # BadDay
    /\ Strptime(to_date) # BadDay
    /\ Strptime(from_date) > Strptime(to_date)

C2_ReversedRangeRaises ==
    /\ (/\ Done
        /\ entry.fn = "get_date_range_fixtures"
        /\ ReversedRange(entry.start_date, entry.end_date))
       => raised = "InvalidRange"
    /\ (/\ Done
        /\ entry.fn = "get_sportlomo_fixtures"
        /\ entry.sport_name \in DOMAIN sports_mapping
        /\ ReversedRange(entry.from_date, entry.to_date))
       => raised = "InvalidRange"

(***************************************************************************)
(* C3.  A fetch for a sport name that is no key of sports_mapping returns  *)
(* success = false with an error message, and no network request is sent   *)
(* before it returns: when get_sportlomo_fixtures is called directly and   *)
(* when the sport is passed through get_fixtures.                          *)
(***************************************************************************)
UnknownSportFetch ==
    \/ /\ entry.fn = "get_sportlomo_fixtures"
       /\ entry.sport_name \notin DOMAIN sports_mapping
    \/ /\ entry.fn = "get_fixtures"
       /\ entry.sport_kw.given
       /\ entry.sport_kw.value \notin DOMAIN sports_mapping

C3_UnknownSportNoNetwork ==
    /\ UnknownSportFetch => NetworkRequests = <<>>
    /\ (Returned /\ UnknownSportFetch) =>
          /\ ret.success = FALSE
          /\ "error" \in DOMAIN ret

(***************************************************************************)
(* C4.  In get_all_sports_fixtures a sport whose fetch fails never halts   *)
(* the run: with well-formed dates the run returns, every requested sport  *)
(* was attempted in list order, by_sport holds a sub-result for every      *)
(* requested sport (success = false with an error message for one whose    *)
(* fetch failed), and the aggregate success flag is true even if some or   *)
(* all sports failed.                                                      *)
(***************************************************************************)
RequestedSports == IF entry.sports.given THEN entry.sports.value ELSE SportsKeys

WellFormedRun ==
    /\ Strptime(entry.from_date) # BadDay
    /\ entry.to_date # NoDate => Strptime(entry.to_date) # BadDay

C4_FailingSportDoesNotHalt ==
    (Done /\ entry.fn = "get_all_sports_fixtures" /\ WellFormedRun)
    =>
    /\ raised = "none"
    /\ ret.success = TRUE
    /\ [i \in 1..Len(SportlomoCalls) |-> SportlomoCalls[i].sport] = RequestedSports
    /\ DOMAIN ret.by_sport = Range(RequestedSports)
    /\ \A s \in DOMAIN ret.by_sport :
          IF s \in DOMAIN sports_mapping
          THEN ret.by_sport[s].success = TRUE
          ELSE /\ ret.by_sport[s].success = FALSE
               /\ "error" \in DOMAIN ret.by_sport[s]

\* a run in which the first sport failed and the second one delivered
C4_Witness ==
    /\ Returned
    /\ entry.fn = "get_all_sports_fixtures"
    /\ RequestedSports = <<"Football", "Hurling">>
    /\ ret.by_sport["Football"].success = FALSE
    /\ ret.by_sport["Hurling"].fixtures # <<>>

(***************************************************************************)
(* C5.  Partial failures are surfaced in the returned metadata: whenever   *)
(* the request for at least one date of a sport fails with a network or    *)
(* decode error, the result returned for that sport records it (success    *)
(* false, or an error message).                                            *)
(***************************************************************************)
SomeDateFailed == \E i \in 1..Len(AjaxAnswers) : ~AjaxAnswers[i].ok

C5_FailedDatesSurfaced ==
    (Returned /\ DirectFetch /\ SomeDateFailed)
    => (ret.success = FALSE \/ "error" \in DOMAIN ret)

(***************************************************************************)
(* C6.  Per-date isolation: for a known sport and from <= to,              *)
(* get_sportlomo_fixtures sends exactly one request per date of [from,to], *)
(* in order; a date whose request fails contributes no fixture and does    *)
(* not prevent the later requests, and the fixtures of every date that     *)
(* succeeded are all in the result.                                        *)
(***************************************************************************)
\* the number of records the fragment of an answer holds for its date
AnswerCount(a) ==
    IF a.ok /\ a.html # EmptyHtml /\ ~HasNotFound(a.html)
    THEN Len(ParseSportlomoMatchData(a.html))
    ELSE 0

C6_PerDateIsolation ==
    (Returned /\ DirectFetch)
    =>
    /\ Len(AjaxPosts) = (EntryLastDay - EntryFirstDay) + 1
    /\ Len(AjaxAnswers) = Len(AjaxPosts)
    /\ \A i \in 1..Len(AjaxPosts) :
          /\ AjaxPosts[i].fdate = Strftime(EntryFirstDay + (i - 1))
          /\ AjaxPosts[i].tdate = AjaxPosts[i].fdate
          /\ Len(FixturesOfDate(ret.fixtures, AjaxPosts[i].fdate))
                = AnswerCount(AjaxAnswers[i])
          /\ ~AjaxAnswers[i].ok =>
                FixturesOfDate(ret.fixtures, AjaxPosts[i].fdate) = <<>>

\* the first date failed, the second was still asked for and delivered
C6_Witness ==
    /\ Returned
    /\ DirectFetch
    /\ Len(AjaxAnswers) = 2
    /\ ~AjaxAnswers[1].ok
    /\ AjaxAnswers[2].ok
    /\ Len(ret.fixtures) = 2

(***************************************************************************)
(* C7.  For each sport of a collection run the SportLoMo AJAX adapter is   *)
(* invoked first, and the HTML page scrape (_try_sportlomo) is invoked as  *)
(* fallback if and only if the AJAX adapter signals failure (success =     *)
(* false), not when it merely returns no fixture.                          *)
(***************************************************************************)
PrimarySignalledFailure ==
    \E s \in DOMAIN ret.by_sport : ret.by_sport[s].success = FALSE

C7_SecondaryIffPrimaryFails ==
    (Returned /\ entry.fn = "get_all_sports_fixtures")
    => (SecondaryCalls # <<>> <=> PrimarySignalledFailure)

(***************************************************************************)
(* C8.  When the AJAX adapter fails with a connection error for "Hurling"  *)
(* on one date and the page scrape can return fixtures for the range, the  *)
(* per-sport result for Hurling has success = true and a non-empty fixture *)
(* list obtained by the page scrape.                                       *)
(***************************************************************************)
C8_HurlingFallback ==
    (/\ Returned
     /\ entry.fn = "get_all_sports_fixtures"
     /\ RequestedSports = <<"Hurling">>
     /\ SomeDateFailed)
    =>
    /\ ret.by_sport["Hurling"].success = TRUE
    /\ ret.by_sport["Hurling"].fixtures # <<>>
    /\ ret.by_sport["Hurling"].method = "sportlomo_scraping"

(***************************************************************************)
(* C9.  Fetching one date, 2025-07-04, when the AJAX answer holds one      *)
(* competition header "U12 Division 1" with date text "4th July" and two   *)
(* match rows, returns a successful result with exactly 2 fixture records, *)
(* both with competition "U12 Division 1", the requested sport and date    *)
(* "4 July".  As claimed, for sport "Football"; as amended, for sport      *)
(* "Male Football", the key of sports_mapping.                             *)
(***************************************************************************)
FourthOfJuly == <<2025, 7, 4>>

\* the call of the scenario for a sport name, answered only by the fragment
ScenarioFetch(sport_name) ==
    /\ Returned
    /\ entry.fn = "get_sportlomo_fixtures"
    /\ entry.sport_name = sport_name
    /\ entry.from_date = FourthOfJuly
    /\ entry.to_date \in {FourthOfJuly, NoDate}
    /\ \A i \in 1..Len(AjaxAnswers) : AjaxAnswers[i].ok /\ AjaxAnswers[i].html = "u12"

ScenarioResult(sport_name) ==
    /\ ret.success = TRUE
    /\ "fixtures" \in DOMAIN ret
    /\ Len(ret.fixtures) = 2
    /\ \A i \in 1..Len(ret.fixtures) :
          /\ ret.fixtures[i].competition = "U12 Division 1"
          /\ ret.fixtures[i].sport = sport_name
          /\ ret.fixtures[i].date = Txt4July

\* the claim as stated, for sport = "Football"
C9_FootballScenario == ScenarioFetch("Football") => ScenarioResult("Football")

\* the claim as amended, for sport = "Male Football"
C9_MaleFootballScenario == ScenarioFetch("Male Football") => ScenarioResult("Male Football")

C9_Witness ==
    /\ ScenarioFetch("Male Football")
    /\ Len(AjaxAnswers) = 1
    /\ Len(ret.fixtures) = 2

(***************************************************************************)
(* C10.  An AJAX answer whose fragment contains the "not_found" marker     *)
(* contributes no fixture for its date and is no error: a fetch whose      *)
(* every date answers with the marker returns an empty fixture list with   *)
(* success = true and no error field.                                      *)
(***************************************************************************)
MarkerAnswer(a) == a.ok /\ HasNotFound(a.html)

C10_NotFoundIsNoError ==
    (Returned /\ DirectFetch)
    =>
    /\ \A i \in 1..Len(AjaxAnswers) :
          MarkerAnswer(AjaxAnswers[i]) =>
             FixturesOfDate(ret.fixtures, AjaxPosts[i].fdate) = <<>>
    /\ (\A i \in 1..Len(AjaxAnswers) : MarkerAnswer(AjaxAnswers[i])) =>
          /\ ret.success = TRUE
          /\ ret.fixtures = <<>>
          /\ "error" \notin DOMAIN ret

\* both dates of a two-day fetch answered with the marker
C10_Witness ==
    /\ Returned
    /\ DirectFetch
    /\ Len(AjaxAnswers) = 2
    /\ \A i \in 1..Len(AjaxAnswers) : MarkerAnswer(AjaxAnswers[i])
    /\ ret.fixtures = <<>>

(***************************************************************************)
(* C11.  Network failures never escape as exceptions: for well-formed      *)
(* date arguments, whatever the upstream answers (timeout, connection      *)
(* error, non-2xx status) to any request of get_fixtures,                  *)
(* get_sportlomo_fixtures, get_all_sports_fixtures or                      *)
(* get_date_range_fixtures, no exception reaches the caller: the call can   *)
(* only end by returning a result.                                         *)
(***************************************************************************)
WellFormedDates ==
    IF entry.fn = "get_date_range_fixtures"
    THEN Strptime(entry.start_date) # BadDay /\ Strptime(entry.end_date) # BadDay
    ELSE /\ entry.from_date # NoDate => Strptime(entry.from_date) # BadDay
         /\ entry.to_date # NoDate => Strptime(entry.to_date) # BadDay

\* the answers that reported a failed request
FailedAnswers ==
    SelectSeq(log, LAMBDA e : e.ev = "answer" /\
                 \/ (e.url = "sportlomo_ajax" /\ ~e.ok)
                 \/ (e.url = "datafeed" /\ ~e.ok)
                 \/ (e.url = "csrf_page" /\ ~e.token))

C11_NetworkFailuresDoNotEscape ==
    (entry.fn # "none" /\ WellFormedDates)
    => raised = "none"

\* every request of a get_fixtures call failed, and the call returned
C11_Witness ==
    /\ Returned
    /\ entry.fn = "get_fixtures"
    /\ WellFormedDates
    /\ Len(FailedAnswers) = 3
    /\ Len(NetworkRequests) = 3
    /\ ret.success = TRUE

(***************************************************************************)
(* C12.  The post-request delay is enforced after every network call       *)
(* regardless of outcome: in a run of get_sportlomo_fixtures or            *)
(* get_date_range_fixtures there is a sleep between any network request    *)
(* and the next one, also when the earlier request failed.                 *)
(***************************************************************************)
IsRequest(e) == e.ev \in {"get", "post"}

SleepBetweenRequests ==
    \A i \in 1..Len(log) : \A j \in (i + 1)..Len(log) :
        (IsRequest(log[i]) /\ IsRequest(log[j]))
        => \E k \in (i + 1)..(j - 1) : log[k].ev = "sleep"

C12_SleepAfterEveryRequest ==
    entry.fn \in {"get_sportlomo_fixtures", "get_date_range_fixtures"}
    => SleepBetweenRequests

(***************************************************************************)
(* C13.  In the result of get_all_sports_fixtures, total_fixtures equals   *)
(* the length of the fixtures list, and the fixtures list is the           *)
(* concatenation of what the fetches delivered, in requested-sport order   *)
(* and, within a sport, in the order of the dates requested: collection    *)
(* order, never re-sorted by calendar date.                                *)
(***************************************************************************)
\* the requested sports that get_sportlomo_fixtures knows, in list order
KnownRequested == SelectSeq(RequestedSports, LAMBDA s : s \in DOMAIN sports_mapping)

\* the requests in collection order: sport by sport, and date by date
CollectionOrder ==
    LET n == SpanDays(entry.from_date, entry.to_date)
    IN  [k \in 1..(Len(KnownRequested) * n) |->
            <<KnownRequested[((k - 1) \div n) + 1],
              Strftime(EntryFirstDay + ((k - 1) % n))>>]

\* the fixtures of the first k answers, each tagged with its request
RECURSIVE Delivered(_)
Delivered(k) ==
    IF k = 0 THEN <<>>
    ELSE Delivered(k - 1) \o
         (IF AjaxAnswers[k].ok /\ HtmlUsable(AjaxAnswers[k].html)
          THEN TagMatches(ParseSportlomoMatchData(AjaxAnswers[k].html),
                          AjaxPosts[k].sport, AjaxPosts[k].fdate)
          ELSE <<>>)

C13_AggregateInCollectionOrder ==
    (Returned /\ entry.fn = "get_all_sports_fixtures")
    =>
    /\ ret.total_fixtures = Len(ret.fixtures)
    /\ [k \in 1..Len(AjaxPosts) |-> <<AjaxPosts[k].sport, AjaxPosts[k].fdate>>]
          = CollectionOrder
    /\ ret.fixtures = Delivered(Len(AjaxAnswers))

\* two fetches over two dates: a fixture of the later date of the first
\* fetch stands before a fixture of the earlier date of the second fetch
C13_Witness ==
    /\ Returned
    /\ entry.fn = "get_all_sports_fixtures"
    /\ Len(RequestedSports) = 2
    /\ \E i \in 1..Len(ret.fixtures) : \E j \in (i + 1)..Len(ret.fixtures) :
          Strptime(ret.fixtures[i].scraped_date) > Strptime(ret.fixtures[j].scraped_date)

(***************************************************************************)
(* C14.  Fixture invariant over every public entry point: every element    *)
(* of a fixture list returned by get_sportlomo_fixtures,                   *)
(* get_all_sports_fixtures or get_date_range_fixtures is a fixture record  *)
(* with a real (non-sentinel) date or real home and away teams; a record   *)
(* with none of these, or an object that is no fixture record, is never    *)
(* emitted.                                                                *)
(***************************************************************************)
IsFixtureRecord(f) == {"date", "home_team", "away_team"} \subseteq DOMAIN f

Populated(f) == f.date # NAText \/ (f.home_team # NA /\ f.away_team # NA)

AllFixtures(list) ==
    \A i \in 1..Len(list) : IsFixtureRecord(list[i]) /\ Populated(list[i])

C14_FixtureInvariant ==
    Returned
    =>
    CASE entry.fn = "get_date_range_fixtures" -> AllFixtures(ret)
      [] entry.fn \in {"get_sportlomo_fixtures", "get_all_sports_fixtures"} ->
            ("fixtures" \in DOMAIN ret => AllFixtures(ret.fixtures))
      [] OTHER -> TRUE

(***************************************************************************)
(* C15.  The Normalizer maps adapter-specific field names onto the         *)
(* canonical schema: in the frame to_dataframe returns, no record keeps    *)
(* team1/team2 (a record produced with them has home_team/away_team        *)
(* instead), and every record carries a sport tag and a source tag.        *)
(***************************************************************************)
\* to_dataframe has returned the frame of the list passed
Normalized == entry.fn = "to_dataframe" /\ pc = "df_again"

InputDicts == SelectSeq(entry.fixtures_data, LAMBDA f : f.is_dict)

Tagged(df, i, col) == col \in Range(df.columns) /\ df.rows[i][col] # NaN

C15_NormalizerCanonicalSchema ==
    Normalized
    =>
    /\ Range(ret.columns) \cap {"team1", "team2"} = {}
    /\ (\E i \in 1..Len(InputDicts) : HasKey(InputDicts[i], "team1"))
          => {"home_team", "away_team"} \subseteq Range(ret.columns)
    /\ \A i \in 1..Len(ret.rows) : Tagged(ret, i, "sport") /\ Tagged(ret, i, "source")

(***************************************************************************)
(* C16.  Tabular output column order and completeness: for any list of     *)
(* fixture records, to_dataframe emits the fields sport, date, time,       *)
(* competition, home_team, away_team, venue, referee (those that occur)    *)
(* first and in that order, followed by every other field in               *)
(* first-encountered order; no field of any input record is dropped, and   *)
(* every record keeps its values.                                          *)
(***************************************************************************)
IndexIn(q, x) == CHOOSE i \in 1..Len(q) : q[i] = x

InputKeys == UNION {Range(Keys(InputDicts[i])) : i \in 1..Len(InputDicts)}

\* where a key is first met: the first record that has it, and its place there
FirstRecordWith(key) ==
    CHOOSE i \in 1..Len(InputDicts) :
        /\ HasKey(InputDicts[i], key)
        /\ \A j \in 1..(i - 1) : ~HasKey(InputDicts[j], key)

MetBefore(a, b) ==
    \/ FirstRecordWith(a) < FirstRecordWith(b)
    \/ /\ FirstRecordWith(a) = FirstRecordWith(b)
       /\ IndexIn(Keys(InputDicts[FirstRecordWith(a)]), a)
            < IndexIn(Keys(InputDicts[FirstRecordWith(a)]), b)

\* column a has to stand before column b
Precedes(a, b) ==
    IF a \in Range(preferred_order)
    THEN b \in Range(preferred_order) => IndexIn(preferred_order, a) < IndexIn(preferred_order, b)
    ELSE b \notin Range(preferred_order) /\ MetBefore(a, b)

C16_ColumnOrderAndCompleteness ==
    Normalized
    =>
    /\ Range(ret.columns) = InputKeys
    /\ \A i \in 1..Len(ret.columns) : \A j \in (i + 1)..Len(ret.columns) :
          /\ ret.columns[i] # ret.columns[j]
          /\ Precedes(ret.columns[i], ret.columns[j])
    /\ Len(ret.rows) = Len(InputDicts)
    /\ \A i \in 1..Len(ret.rows) : \A k \in 1..Len(InputDicts[i].items) :
          ret.rows[i][InputDicts[i].items[k][1]] = InputDicts[i].items[k][2]

\* a frame whose preferred columns were moved in front of two other
\* columns met earlier
C16_Witness ==
    /\ Normalized
    /\ Len(ret.columns) >= 4
    /\ ColumnsOf(<<>>, InputDicts) # ret.columns
    /\ Len(OtherCols(ret.columns)) >= 2
    /\ Len(InputDicts) = 2

(***************************************************************************)
(* C17.  The Normalizer is idempotent: to_dataframe applied to the records *)
(* of a frame it returned yields the same records with the same fields in  *)
(* the same order as applying it once.                                     *)
(***************************************************************************)
NormalizedTwice == entry.fn = "to_dataframe" /\ Done

C17_NormalizerIdempotent == NormalizedTwice => log[2] = log[1]

\* a frame of two records whose columns the first call reordered and
\* whose second record lacks a field of the first
C17_Witness ==
    /\ NormalizedTwice
    /\ Len(log[1].rows) = 2
    /\ ColumnsOf(<<>>, InputDicts) # log[1].columns
    /\ \E col \in Range(log[1].columns) : ~HasKey(InputDicts[2], col)
    /\ log[2] = log[1]

(***************************************************************************)
(* C18.  The range filter _is_date_in_range keeps a record with a          *)
(* non-empty date exactly when the date cannot be parsed or when it parses *)
(* to a day d with from <= d <= to; a date that parses to a day outside    *)
(* [from, to] is dropped.                                                  *)
(***************************************************************************)
\* the day a date string stands for, BadDay if it cannot be parsed
ParsedDay(date_str) ==
    IF date_str.style = "slash" /\ Len(date_str.parts) # 3
    THEN BadDay
    ELSE CheckDate(date_str)

Extracted == entry.fn = "_extract_sportlomo_fixtures" /\ Done

\* the selectors that match an element of the page, and those whose
\* elements yield a record that passes the range filter
MatchingSelectors ==
    {k \in 1..Len(fixture_selectors) :
        \E i \in 1..Len(entry.soup) : Selects(fixture_selectors[k], entry.soup[i])}

YieldingSelectors ==
    {k \in 1..Len(fixture_selectors) :
        \E i \in 1..Len(entry.soup) :
            /\ Selects(fixture_selectors[k], entry.soup[i])
            /\ Kept(ParseSportlomoFixture(entry.soup[i].text),
                    entry.from_date, entry.to_date)}

\* the cascade as it runs when it stops at the first selector of S
StopsAtFirstOf(S) ==
    IF S = {}
    THEN ret.tried = fixture_selectors /\ ret.general
    ELSE ret.tried = SubSeq(fixture_selectors, 1, Least(S)) /\ ~ret.general

\* the claim as stated: the first selector that matches an element
C19_StopsAtFirstMatchingSelector == Extracted => StopsAtFirstOf(MatchingSelectors)

\* the claim as amended: the first selector that yields a record
C19_StopsAtFirstYieldingSelector == Extracted => StopsAtFirstOf(YieldingSelectors)

\* the first selector matched an element that gave no record, and a later
\* selector delivered the result
C19_Witness ==
    /\ Extracted
    /\ MatchingSelectors # {}
    /\ YieldingSelectors # {}
    /\ Least(MatchingSelectors) < Least(YieldingSelectors)
    /\ Len(ret.tried) = Least(YieldingSelectors)
    /\ ret.fixtures # <<>>

(***************************************************************************)
(* C20.  A page on which no candidate selector matches any element, but    *)
(* whose plain text has a line with a D/M/YYYY date inside the requested   *)
(* range together with a "V"/"v" separator, produces a non-empty fixture   *)
(* list from the free-text fallback, with one record per such line.        *)
(* As amended: the same for every line whose first D/M/YYYY date is        *)
(* inside the requested range; a line whose first date is outside the      *)
(* range gives no record, whatever dates follow on it.                     *)
(***************************************************************************)
InRequestedRange(day) ==
    /\ day # BadDay
    /\ Strptime(entry.from_date) <= day
    /\ day <= Strptime(entry.to_date)

\* a line with a "V"/"v" and some D/M/YYYY date inside the range
HasDateInRange(line) ==
    /\ line.versus # "none"
    /\ \E i \in 1..Len(line.dates) :
          /\ MatchesDMYYYY(line.dates[i])
          /\ InRequestedRange(StrptimeDMY(line.dates[i].parts))

\* a line with a "V"/"v" whose first D/M/YYYY date is inside the range
FirstDateInRange(line) ==
    /\ line.versus # "none"
    /\ \E i \in 1..Len(line.dates) :
          /\ MatchesDMYYYY(line.dates[i])
          /\ \A j \in 1..(i - 1) : ~MatchesDMYYYY(line.dates[j])
          /\ InRequestedRange(StrptimeDMY(line.dates[i].parts))

RecordsOfLine(line) ==
    {k \in 1..Len(ret.fixtures) :
        HasKey(ret.fixtures[k], "source_line")
        /\ Get(ret.fixtures[k], "source_line") = line}

OccurrencesOfLine(line) == {j \in 1..Len(entry.soup) : entry.soup[j].text = line}

\* no selector matches, and every line that qualifies (by some date, or
\* by its first date) has its records
LineScanDelivers(by) ==
    (Extracted /\ MatchingSelectors = {})
    =>
    \A i \in 1..Len(entry.soup) :
        (IF by = "some date" THEN HasDateInRange(entry.soup[i].text)
                            ELSE FirstDateInRange(entry.soup[i].text))
        => /\ ret.general
           /\ ret.fixtures # <<>>
           /\ Cardinality(RecordsOfLine(entry.soup[i].text))
                = Cardinality(OccurrencesOfLine(entry.soup[i].text))

\* the claim as stated
C20_LineWithDateInRange == LineScanDelivers("some date")

\* the claim as amended
C20_LineWithFirstDateInRange == LineScanDelivers("first date")

\* a page of two lines that no selector matches: one qualifies and gives
\* the only record, the other has its first date outside the range
C20_Witness ==
    /\ Extracted
    /\ MatchingSelectors = {}
    /\ Len(entry.soup) = 2
    /\ FirstDateInRange(entry.soup[1].text)
    /\ ~FirstDateInRange(entry.soup[2].text)
    /\ HasDateInRange(entry.soup[2].text)
    /\ ret.general
    /\ Len(ret.fixtures) = 1

(***************************************************************************)
(* C21.  Competition grouping.                                             *)
(***************************************************************************)
Parsed == pc = "done" /\ entry.fn = "_parse_sportlomo_match_data"

\* the rows reached from a header through a run of consecutive rows
AttributedRows(nodes) ==
    {i \in 1..Len(nodes) :
        /\ nodes[i].tag = "tbody"
        /\ \E h \in 1..(i - 1) :
              /\ IsDivider(nodes[h])
              /\ \A j \in (h + 1)..i : nodes[j].tag = "tbody"}

\* the nearest sibling before row i that is no row
NearestBefore(nodes, i) ==
    CHOOSE h \in 1..(i - 1) :
        /\ nodes[h].tag # "tbody"
        /\ \A j \in (h + 1)..i : nodes[j].tag = "tbody"

\* the k-th smallest element of a set of numbers
NthOf(S, k) == CHOOSE i \in S : Cardinality({j \in S : j < i}) = k - 1

\* a row that no header reaches
OrphanRows(nodes) ==
    {i \in 1..Len(nodes) : nodes[i].tag = "tbody" /\ i \notin AttributedRows(nodes)}

\* C21: the records of a fragment are, in document order, the rows that
\* follow a competition header through a run of consecutive rows, one
\* record per such row, each with the competition name and the date of the
\* nearest header before it; a row behind a sibling that is no row gives no
\* record
C21_GroupingIsStructural ==
    Parsed =>
        LET nodes == entry.nodes
            rows == AttributedRows(nodes)
        IN  /\ Len(ret) = Cardinality(rows)
            /\ \A k \in 1..Len(ret) :
                  LET i == NthOf(rows, k)
                      h == nodes[NearestBefore(nodes, i)]
                  IN  /\ ret[k].competition = HeaderCompName(h)
                      /\ ret[k].date = HeaderMatchDate(h)
                      /\ ret[k] = MatchOfRow(h, nodes[i])

\* a header with a row, then a row behind a sibling that is no row
C21_Witness ==
    /\ Parsed
    /\ Len(ret) = 1
    /\ OrphanRows(entry.nodes) # {}
    /\ \E i \in OrphanRows(entry.nodes) : i > NthOf(AttributedRows(entry.nodes), 1)

(***************************************************************************)
(* C22.  The seven keys and the sentinel.                                  *)
(***************************************************************************)
\* lines 142-150
SevenKeys == {"date", "time", "competition", "home_team", "away_team", "venue", "referee"}

\* the row and the header the k-th record of a fragment was built from
RowOfRecord(k) == entry.nodes[NthOf(AttributedRows(entry.nodes), k)]
HeaderOfRecord(k) ==
    entry.nodes[NearestBefore(entry.nodes, NthOf(AttributedRows(entry.nodes), k))]

\* the markup of a field is absent: the tag, the cell or the cell's span
NoTextMarkup(tag) == ~tag.has
NoSpanMarkup(cell) == ~cell.has \/ ~cell.span

\* C22: every record of the fragment parser has exactly the seven keys date,
\* time, competition, home_team, away_team, venue and referee, and a field
\* whose markup is absent holds "N/A"
C22_SevenKeysWithSentinel ==
    Parsed =>
        \A k \in 1..Len(ret) :
            /\ DOMAIN ret[k] = SevenKeys
            /\ NoTextMarkup(HeaderOfRecord(k).date) => ret[k].date = NAText
            /\ NoTextMarkup(HeaderOfRecord(k).comp_name) => ret[k].competition = NA
            /\ NoTextMarkup(RowOfRecord(k).time) => ret[k].time = NA
            /\ NoSpanMarkup(RowOfRecord(k).home) => ret[k].home_team = NA
            /\ NoSpanMarkup(RowOfRecord(k).away) => ret[k].away_team = NA
            /\ NoSpanMarkup(RowOfRecord(k).venue) => ret[k].venue = NA
            /\ NoSpanMarkup(RowOfRecord(k).referee) => ret[k].referee = NA

\* a bare row under a header without a date, and a bare row under a header
\* without a name
C22_Witness ==
    /\ Parsed
    /\ Len(ret) = 2
    /\ RowOfRecord(1) = RowBare /\ RowOfRecord(2) = RowBare
    /\ NoTextMarkup(HeaderOfRecord(1).date)
    /\ NoTextMarkup(HeaderOfRecord(2).comp_name)

(***************************************************************************)
(* C23.  Ordinal suffixes.                                                 *)
(***************************************************************************)
Digits == {"0", "1", "2", "3", "4", "5", "6", "7", "8", "9"}
OrdinalSuffixes == {<<"s", "t">>, <<"n", "d">>, <<"r", "d">>, <<"t", "h">>}

\* the places of a text where an ordinal suffix follows a digit
SuffixPlaces(t) ==
    {i \in 2..(Len(t) - 1) : t[i - 1] \in Digits /\ <<t[i], t[i + 1]>> \in OrdinalSuffixes}

\* the text without the ordinal suffixes that follow a day number
WithoutDaySuffixes(t) ==
    SelectSeq([i \in 1..Len(t) |-> [at |-> i, ch |-> t[i]]],
              LAMBDA c : c.at \notin SuffixPlaces(t) /\ (c.at - 1) \notin SuffixPlaces(t))

\* the characters of the records' date
CharsOf(q) == [i \in 1..Len(q) |-> q[i].ch]

\* C23: the date a record stores is the header's date text with the ordinal
\* suffixes after a day number removed and every other character kept
C23_OnlySuffixesStripped ==
    Parsed =>
        \A k \in 1..Len(ret) :
            HeaderOfRecord(k).date.has =>
                ret[k].date = CharsOf(WithoutDaySuffixes(Strip(HeaderOfRecord(k).date.text)))

(***************************************************************************)
(* C25.  The record of a candidate element.                                *)
(***************************************************************************)
ParsedElement == pc = "done" /\ entry.fn = "_parse_sportlomo_fixture"

\* the text holds a date one of the three patterns finds
DateExtracted(text) ==
    \E i \in 1..Len(text.dates) :
        \/ MatchesDDMMYYYY(text.dates[i])
        \/ MatchesISO(text.dates[i])
        \/ MatchesDMYYYY(text.dates[i])

\* the text holds two names around a "V"
TeamsExtracted(text) == text.versus = "V"

\* C25: _parse_sportlomo_fixture yields a record exactly when a date or the
\* two team names were extracted from the text; a text with only a time, a
\* venue or a competition yields None
C25_RecordIffDateOrTeams ==
    ParsedElement =>
        /\ ret.is_dict <=> (DateExtracted(entry.text) \/ TeamsExtracted(entry.text))
        /\ ret.is_dict =>
              /\ HasKey(ret, "date") <=> DateExtracted(entry.text)
              /\ HasKey(ret, "team1") <=> TeamsExtracted(entry.text)
              /\ HasKey(ret, "team2") <=> TeamsExtracted(entry.text)

\* a text with a time, a venue and a competition only: no record
C25_Witness ==
    /\ ParsedElement
    /\ entry.text.time /\ entry.text.venue /\ entry.text.comp # "none"
    /\ ~DateExtracted(entry.text) /\ ~TeamsExtracted(entry.text)
    /\ ~ret.is_dict

(***************************************************************************)
(* C26.  Records without a date, records with a date that does not parse.  *)
(***************************************************************************)
\* the candidate records of the call: those of the elements the selectors
\* tried found, and, when the line scan ran, those of the lines it took
ElementCandidates ==
    {ParseSportlomoFixture(entry.soup[i].text) :
        i \in {j \in 1..Len(entry.soup) :
                 \E k \in 1..Len(ret.tried) : Selects(ret.tried[k], entry.soup[j])}}

LineCandidates ==
    IF ret.general
    THEN {ParseFixtureLine(entry.soup[i].text) :
            i \in {j \in 1..Len(entry.soup) :
                     /\ entry.soup[j].text.versus # "none"
                     /\ \E d \in 1..Len(entry.soup[j].text.dates) :
                           MatchesDMYYYY(entry.soup[j].text.dates[d])}}
    ELSE {}

Candidates == {c \in ElementCandidates \cup LineCandidates : c.is_dict}

\* the record's date is there but no strptime call accepts it
UnparsableDate(fixture) ==
    /\ HasKey(fixture, "date")
    /\ Get(fixture, "date") # EmptyDate
    /\ CheckDate(Get(fixture, "date")) = BadDay

\* C26: a candidate record without a date field is never returned, a
\* candidate record whose date is non-empty and cannot be parsed is always
\* returned, and every record returned has a non-empty date field
C26_FilterAsymmetry ==
    Extracted =>
        /\ \A c \in Candidates : ~HasKey(c, "date") => c \notin Range(ret.fixtures)
        /\ \A c \in Candidates : UnparsableDate(c) => c \in Range(ret.fixtures)
        /\ \A k \in 1..Len(ret.fixtures) :
              /\ HasKey(ret.fixtures[k], "date")
              /\ Get(ret.fixtures[k], "date") # EmptyDate

\* an element with two team names and no date, and one with a date that is
\* no day of the calendar: the second is the only record returned
C26_Witness ==
    /\ Extracted
    /\ \E c \in Candidates : ~HasKey(c, "date") /\ HasKey(c, "team1")
    /\ \E c \in Candidates : UnparsableDate(c)
    /\ Len(ret.fixtures) = 1
    /\ UnparsableDate(ret.fixtures[1])

(***************************************************************************)
(* C29.  One extraction tier per result.                                   *)
(***************************************************************************)
\* a record of the free-text scan carries its line (line 605), a record of
\* an element never does
FromLineScan(fixture) == HasKey(fixture, "source_line")

\* the kept records of the elements of selector k, in document order
KeptOfSelector(k) ==
    LET els == {i \in 1..Len(entry.soup) :
                  /\ Selects(fixture_selectors[k], entry.soup[i])
                  /\ Kept(ParseSportlomoFixture(entry.soup[i].text),
                          entry.from_date, entry.to_date)}
    IN  [n \in 1..Cardinality(els) |-> ParseSportlomoFixture(entry.soup[NthOf(els, n)].text)]

\* the records of the lines the scan keeps, in document order
KeptOfLineScan ==
    LET ls == {i \in 1..Len(entry.soup) :
                 /\ entry.soup[i].text.versus # "none"
                 /\ \E d \in 1..Len(entry.soup[i].text.dates) :
                       MatchesDMYYYY(entry.soup[i].text.dates[d])
                 /\ Kept(ParseFixtureLine(entry.soup[i].text),
                         entry.from_date, entry.to_date)}
    IN  [n \in 1..Cardinality(ls) |-> ParseFixtureLine(entry.soup[NthOf(ls, n)].text)]

\* C29: the records of one call of _extract_sportlomo_fixtures are the
\* kept records of the elements of one selector, or the records of the
\* free-text line scan, never records of two selectors or of a selector
\* and the scan together
C29_SingleTier ==
    Extracted =>
        \/ /\ \A k \in 1..Len(ret.fixtures) : ~FromLineScan(ret.fixtures[k])
           /\ \E k \in 1..Len(fixture_selectors) : ret.fixtures = KeptOfSelector(k)
        \/ /\ \A k \in 1..Len(ret.fixtures) : FromLineScan(ret.fixtures[k])
           /\ ret.fixtures = KeptOfLineScan

\* two elements that different selectors find, each with a record that is
\* kept and each a line the scan would take: one record is returned
C29_Witness ==
    /\ Extracted
    /\ Len(entry.soup) = 2
    /\ entry.soup[1].tag # entry.soup[2].tag
    /\ \A i \in 1..2 : \E k \in YieldingSelectors :
          /\ Selects(fixture_selectors[k], entry.soup[i])
          /\ KeptOfSelector(k) = <<ParseSportlomoFixture(entry.soup[i].text)>>
    /\ Len(KeptOfLineScan) = 2
    /\ Len(ret.fixtures) = 1
    /\ ~FromLineScan(ret.fixtures[1])

(***************************************************************************)
(* C24.  The order of the requests of get_all_sports_fixtures.             *)
(***************************************************************************)
\* the places of the log where get_sportlomo_fixtures was called, and where
\* an AJAX request was posted or answered
FetchPlaces ==
    {i \in 1..Len(log) : log[i].ev = "call" /\ log[i].fn = "get_sportlomo_fixtures"}
PostPlaces == {i \in 1..Len(log) : log[i].ev = "post"}
AnswerPlaces == {i \in 1..Len(log) : log[i].ev = "answer"}

\* the number of fetches begun up to place i: the position, in the
\* requested list, of the sport being fetched there
FetchNo(i) == Cardinality({c \in FetchPlaces : c <= i})

\* the posts of the same fetch before place i
EarlierPostsOfFetch(i) == {p \in PostPlaces : p < i /\ FetchNo(p) = FetchNo(i)}

\* C24: in get_all_sports_fixtures the sports are fetched in the order of
\* the requested list, one request is outstanding at a time, the requests
\* of one fetch ask for the dates from, from + 1, ... in ascending order,
\* none outside [from, to], and when the call returns every known sport of
\* the list has had each date of the range requested exactly once
C24_RequestsInNestedOrder ==
    (entry.fn = "get_all_sports_fixtures" /\ WellFormedRun)
    =>
    LET n == SpanDays(entry.from_date, entry.to_date)
    IN  /\ Len(NetworkRequests) = Cardinality(PostPlaces)
        /\ \A c \in FetchPlaces :
              /\ FetchNo(c) <= Len(RequestedSports)
              /\ log[c].sport = RequestedSports[FetchNo(c)]
        /\ \A p \in PostPlaces :
              /\ FetchNo(p) >= 1
              /\ log[p].sport = RequestedSports[FetchNo(p)]
              /\ Strptime(log[p].fdate) = EntryFirstDay + Cardinality(EarlierPostsOfFetch(p))
              /\ Strptime(log[p].fdate) <= EntryLastDay
              /\ log[p].tdate = log[p].fdate
              /\ \A q \in PostPlaces : q < p => \E a \in AnswerPlaces : q < a /\ a < p
        /\ Done =>
              /\ Cardinality(FetchPlaces) = Len(RequestedSports)
              /\ \A c \in FetchPlaces :
                    Cardinality({p \in PostPlaces : FetchNo(p) = FetchNo(c)})
                      = IF log[c].sport \in DOMAIN sports_mapping THEN n ELSE 0

\* the same sport listed twice over a range of two dates, all four
\* requests made, the second of them failed
C24_Witness ==
    /\ Done
    /\ entry.fn = "get_all_sports_fixtures"
    /\ WellFormedRun
    /\ Len(RequestedSports) = 2
    /\ Cardinality(PostPlaces) = 4
    /\ Len(AjaxAnswers) = 4
    /\ ~AjaxAnswers[1].ok

(***************************************************************************)
(* C27.  total_fixtures and by_sport.                                      *)
(***************************************************************************)
\* the sum of the fixture counts of the sub-results stored under the keys S
RECURSIVE BySportCount(_, _)
BySportCount(by_sport, S) ==
    IF S = {} THEN 0
    ELSE LET s == CHOOSE x \in S : TRUE
         IN  Len(GetFixtures(by_sport[s])) + BySportCount(by_sport, S \ {s})

\* the sports whose stored sub-result holds the fixture
HoldersOf(by_sport, fixture) ==
    {s \in DOMAIN by_sport : fixture \in Range(GetFixtures(by_sport[s]))}

\* C27: in the result of get_all_sports_fixtures, total_fixtures is the sum
\* of the fixture counts of the sub-results of by_sport, and every fixture
\* of the aggregate list is in exactly one of them, also when the list of
\* sports names a sport twice
C27_TotalMatchesBySport ==
    (Returned /\ entry.fn = "get_all_sports_fixtures")
    =>
    /\ ret.total_fixtures = BySportCount(ret.by_sport, DOMAIN ret.by_sport)
    /\ \A k \in 1..Len(ret.fixtures) :
          Cardinality(HoldersOf(ret.by_sport, ret.fixtures[k])) = 1

(***************************************************************************)
(* C28.  The tags of the fixtures of get_sportlomo_fixtures.               *)
(***************************************************************************)
\* the fixture as the fragment parser emitted it, without the two tags
Untagged(f) == [k \in SevenKeys |-> f[k]]

\* the requests whose answer held the fixture
ProducedBy(f) ==
    {p \in 1..Len(AjaxAnswers) :
        /\ AjaxAnswers[p].ok
        /\ Untagged(f) \in Range(ParseSportlomoMatchData(AjaxAnswers[p].html))}

\* C28: every fixture get_sportlomo_fixtures returns has sport equal to the
\* sport asked for and scraped_date equal to the date of a request whose
\* answer held it; the scraped_date values lie in [from, to] and never
\* decrease along the list
C28_SportAndScrapedDate ==
    (Returned /\ entry.fn = "get_sportlomo_fixtures")
    =>
    LET fixtures == GetFixtures(ret)
    IN  /\ \A k \in 1..Len(fixtures) :
              /\ DOMAIN fixtures[k] = SevenKeys \cup {"sport", "scraped_date"}
              /\ fixtures[k].sport = entry.sport_name
              /\ EntryFirstDay <= Strptime(fixtures[k].scraped_date)
              /\ Strptime(fixtures[k].scraped_date) <= EntryLastDay
              /\ \E p \in ProducedBy(fixtures[k]) :
                    AjaxPosts[p].fdate = fixtures[k].scraped_date
        /\ \A j \in 1..Len(fixtures) : \A k \in j..Len(fixtures) :
              Strptime(fixtures[j].scraped_date) <= Strptime(fixtures[k].scraped_date)

\* a range of two dates whose first request found nothing and whose second
\* request delivered the fixtures
C28_Witness ==
    /\ Returned
    /\ entry.fn = "get_sportlomo_fixtures"
    /\ SpanDays(entry.from_date, entry.to_date) = 2
    /\ Len(AjaxAnswers) = 2
    /\ AjaxAnswers[1].html = "not_found"
    /\ GetFixtures(ret) # <<>>
    /\ \A k \in 1..Len(ret.fixtures) : Strptime(ret.fixtures[k].scraped_date) = EntryLastDay

(***************************************************************************)
(* C30.  Termination of get_date_range_fixtures.                           *)
(***************************************************************************)
\* C30: for start <= end and any batch size, zero and negative ones
\* included, every batch of get_date_range_fixtures starts on a later date
\* than the one before, and get_fixtures is called at most
\* end - start + 1 times
C30_BatchStartsAdvance ==
    (/\ entry.fn = "get_date_range_fixtures"
     /\ SpanDays(entry.start_date, entry.end_date) >= 1)
    =>
    /\ \A i \in 2..Len(Batches) : Batches[i][1] > Batches[i - 1][1]
    /\ Len(Batches) <= SpanDays(entry.start_date, entry.end_date)

====
